---- MODULE Spec2Model ----
(***************************************************************************)
(* Narrahunt: the URL queue (url_queue.py) and the investigation loop of   *)
(* the detective agent (detective_agent.py) as state machines.             *)
(*                                                                         *)
(* QueueSpec  : URLQueue.add_url / URLQueue.next_url under a wall clock.   *)
(* AgentSpec  : DetectiveAgent.start_investigation, one action per phase   *)
(*              of the loop.                                               *)
(* LedgerSpec : DetectiveAgent._process_artifacts on one page.             *)
(* NormalizeSpec : DetectiveAgent._normalize_content on one text.          *)
(* ScheduleSpec : the loop with a budget of ten iterations.                *)
(* StoreSpec  : URLQueue.save_state / load_state over one state file.      *)
(***************************************************************************)
EXTENDS Integers, Sequences, FiniteSets, TLC

VARIABLES
    \* ---- URLQueue (url_queue.py) ----
    pending,             \* self.pending: insertion-ordered dict, as a sequence of entries
    visited,             \* self.visited: url_hash -> [url, visited]
    domains_last_visit,  \* self.domains_last_visit: domain -> timestamp
    now,                 \* time.time(), in ticks
    op,                  \* the last call made on the queue and its argument
    ret,                 \* what that call returned
    state_file,          \* the file at self.state_file
    \* ---- DetectiveAgent (detective_agent.py) ----
    pc,                  \* where start_investigation stands
    stop,                \* why the investigation stopped, as logged
    report,              \* the final report: "none", "saved" or "unsaved"
    max_iterations,      \* self.max_iterations
    max_time_seconds,    \* self.max_time_seconds, in ticks
    start_time,          \* self.start_time
    current_iteration,   \* self.current_iteration
    current_target,      \* self.current_target, None before the first selection
    iteration_discoveries, \* self.iteration_discoveries: iteration -> new discoveries
    investigated_urls,   \* self.investigated_urls
    discoveries,         \* self.discoveries
    unique_discovery_contents, \* self.unique_discovery_contents
    entity_aliases,      \* self.entity_aliases
    accessed,            \* the calls made to the fetcher, the Wayback client and the
                         \* search engine, in order: kind:identity and how it ended
    llm_calls,           \* the calls made to the LLM for a strategy, in order: where,
                         \* and how the answer ended
    saved_state,         \* the iteration of the last state file written, 0 if none
    research_strategy    \* self.research_strategy, a ResearchStrategy

qvars == <<pending, visited, domains_last_visit, now, op, ret, state_file>>

avars == <<pc, stop, report, max_iterations, max_time_seconds, start_time,
           current_iteration, current_target, iteration_discoveries,
           investigated_urls, discoveries, unique_discovery_contents,
           entity_aliases, accessed, llm_calls, saved_state, research_strategy>>

vars == <<qvars, avars>>

\* Python's None and "some x", as a sequence of no or one element
None == <<>>
Some(x) == <<x>>

\* what a call returned: add_url a bool, next_url a pair (url, depth) or (None, None)
RetBool(b) == [kind |-> "bool", ok |-> b, url |-> None, depth |-> 0]
RetPair(u, d) == [kind |-> "pair", ok |-> TRUE, url |-> Some(u), depth |-> d]
RetNone == [kind |-> "pair", ok |-> FALSE, url |-> None, depth |-> 0]

(***************************************************************************)
(* Time.  time.time() is read in ticks of 1/TicksPerSecond seconds.  The   *)
(* clock starts at Epoch, a time later than min_delay after 0, as any real *)
(* time.time() is: a domain never visited (last visit 0) is then admitted. *)
(***************************************************************************)
TicksPerSecond == 2
MaxTicks == 2
MinDelay == 1
MinDelayTicks == MinDelay * TicksPerSecond
Epoch == MinDelayTicks
MaxClock == Epoch + MaxTicks

(***************************************************************************)
(* URLs.  A raw URL is what urlparse makes of the string: scheme, netloc,  *)
(* path, query, fragment.  scheme "" is a string without "://".            *)
(***************************************************************************)
RawUrl(s, n, p, q, f) == [scheme |-> s, netloc |-> n, path |-> p, query |-> q, fragment |-> f]

\* the empty string
EmptyUrl == RawUrl("", "", "", "", "")

\* the calls add_url(url, depth) a caller makes; depth is the only payload a
\* caller can attach to a URL, so a target's priority travels in it
Request(u, d) == [url |-> u, depth |-> d]

Requests ==
    { Request(RawUrl("https", "d1.org", "/a", "", ""),    5),
      Request(RawUrl("https", "D1.ORG", "/a", "", "top"), 9),
      Request(RawUrl("",      "d1.org", "/b", "", ""),    9),
      Request(RawUrl("https", "d1.org", "/c", "", ""),    5),
      Request(RawUrl("https", "d1.org", "/a", "x=1", ""), 5),
      Request(RawUrl("https", "d2.org", "/a", "", ""),    5),
      Request(RawUrl("https", "D2.org", "/b", "", ""),    9),
      Request(RawUrl("ftp",   "d1.org", "/a", "", ""),    5),
      Request(EmptyUrl,                                   5),
      Request(RawUrl("http",  "[",      "",   "", ""),    5) }

\* the number of URLs the queue is given room for
MaxUrls == 4

\* str.lower() on the netlocs of RawURLs
LowerNetloc(n) ==
    CASE n = "D1.ORG" -> "d1.org"
      [] n = "D2.org" -> "d2.org"
      [] OTHER        -> n

\* urlparse raises ValueError on a netloc with an unmatched bracket
UrlparseRaises(u) == u.netloc = "["

\* URLQueue._normalize_url: default scheme https, http(s) only, netloc lowered,
\* fragment dropped, query kept
NormalizeUrl(u) ==
    LET scheme == IF u.scheme = "" THEN "https" ELSE u.scheme
    IN  IF UrlparseRaises(u) \/ scheme \notin {"http", "https"}
        THEN None
        ELSE Some([scheme |-> scheme, netloc |-> LowerNetloc(u.netloc), path |-> u.path,
                   query |-> u.query, fragment |-> ""])

\* URLQueue._hash_url: md5 of the normalized URL, taken as collision-free, so the
\* digest is named by the URL it was computed from
HashUrl(url) == url

\* URLQueue._get_domain
GetDomain(url) == LowerNetloc(url.netloc)

PendingKeys == { pending[i].key : i \in 1..Len(pending) }
VisitedKeys == DOMAIN visited

\* dict.get(domain, 0)
LastVisit(domain) ==
    IF domain \in DOMAIN domains_last_visit THEN domains_last_visit[domain] ELSE 0

\* d[k] = v on an insertion-ordered dict held as a sequence
DictSet(seq, entry) ==
    IF \E i \in 1..Len(seq) : seq[i].key = entry.key
    THEN [i \in 1..Len(seq) |-> IF seq[i].key = entry.key THEN entry ELSE seq[i]]
    ELSE Append(seq, entry)

\* del d[k]
DictDel(seq, k) == SelectSeq(seq, LAMBDA e : e.key # k)

\* f with f[k] = v, k new or not
MapSet(f, k, v) == [x \in DOMAIN f \cup {k} |-> IF x = k THEN v ELSE f[x]]

EmptyMap == [x \in {} |-> 0]

\* no file at self.state_file
NoFile == [kind |-> "absent"]

----------------------------------------------------------------------------
(* URLQueue.add_url *)

AlreadyKnown_PendingOnly(h) == h \in PendingKeys
AlreadyKnown_VisitedOnly(h) == h \in VisitedKeys

\* "if url_hash in self.visited or url_hash in self.pending"
AlreadyKnown(h) == h \in VisitedKeys \/ h \in PendingKeys

add_url(raw, depth) ==
    LET norm == NormalizeUrl(raw) IN
    /\ op' = [name |-> "add_url", url |-> Some(raw), depth |-> depth]
    /\ IF norm = None
       THEN /\ ret' = RetBool(FALSE)
            /\ UNCHANGED <<pending, visited, domains_last_visit>>
       ELSE IF AlreadyKnown(HashUrl(norm[1]))
       THEN /\ ret' = RetBool(FALSE)
            /\ UNCHANGED <<pending, visited, domains_last_visit>>
       ELSE /\ pending' = DictSet(pending,
                            [key |-> HashUrl(norm[1]), url |-> norm[1], depth |-> depth,
                             added |-> now])
            /\ ret' = RetBool(TRUE)
            /\ UNCHANGED <<visited, domains_last_visit>>
    /\ UNCHANGED <<now, state_file>>

----------------------------------------------------------------------------
(* URLQueue.next_url *)

RateLimited_Never(domain) == FALSE

\* "if current_time - last_visit < min_delay: continue"
RateLimited(domain) == now - LastVisit(domain) < MinDelayTicks

ScanHit_ByPriority ==
    LET ok == { i \in 1..Len(pending) : ~RateLimited(GetDomain(pending[i].url)) }
    IN  IF ok = {} THEN 0
        ELSE CHOOSE i \in ok : \A j \in ok :
                \/ pending[i].depth > pending[j].depth
                \/ pending[i].depth = pending[j].depth /\ i <= j

\* the for loop over list(self.pending.items()): the first entry, in insertion
\* order, whose domain is not rate-limited; 0 when the loop falls through
ScanHit ==
    LET ok == { i \in 1..Len(pending) : ~RateLimited(GetDomain(pending[i].url)) }
    IN  IF ok = {} THEN 0 ELSE CHOOSE i \in ok : \A j \in ok : i <= j

FallbackIndex_Last == Len(pending)

\* "if self.pending: url_hash = next(iter(self.pending))"
FallbackIndex == IF pending # <<>> THEN 1 ELSE 0

TakeEntry_TouchAll(i) ==
    LET info == pending[i] IN
    /\ domains_last_visit' = [d \in DOMAIN domains_last_visit \cup {GetDomain(info.url)} |-> now]
    /\ visited' = MapSet(visited, info.key, [url |-> info.url, visited |-> now])
    /\ pending' = DictDel(pending, info.key)
    /\ ret' = RetPair(info.url, info.depth)

\* the body shared by the loop and the fallback: record the visit, move the entry
TakeEntry(i) ==
    LET info == pending[i] IN
    /\ domains_last_visit' = MapSet(domains_last_visit, GetDomain(info.url), now)
    /\ visited' = MapSet(visited, info.key, [url |-> info.url, visited |-> now])
    /\ pending' = DictDel(pending, info.key)
    /\ ret' = RetPair(info.url, info.depth)

next_url_ForgetsVisits ==
    /\ op' = [name |-> "next_url", url |-> None, depth |-> 0]
    /\ IF pending = <<>>
       THEN /\ ret' = RetNone
            /\ domains_last_visit' = EmptyMap
            /\ UNCHANGED <<pending, visited>>
       ELSE IF ScanHit # 0
       THEN TakeEntry(ScanHit)
       ELSE TakeEntry(FallbackIndex)
    /\ UNCHANGED <<now, state_file>>

next_url ==
    /\ op' = [name |-> "next_url", url |-> None, depth |-> 0]
    /\ IF pending = <<>>
       THEN /\ ret' = RetNone
            /\ UNCHANGED <<pending, visited, domains_last_visit>>
       ELSE IF ScanHit # 0
       THEN TakeEntry(ScanHit)
       ELSE IF FallbackIndex # 0
       THEN TakeEntry(FallbackIndex)
       ELSE /\ ret' = RetNone
            /\ UNCHANGED <<pending, visited, domains_last_visit>>
    /\ UNCHANGED <<now, state_file>>

\* the wall clock moves between calls
Tick ==
    /\ now < MaxClock
    /\ now' = now + 1
    /\ UNCHANGED <<pending, visited, domains_last_visit, op, ret, state_file>>
    /\ UNCHANGED avars

AddUrl ==
    /\ Len(pending) + Cardinality(VisitedKeys) < MaxUrls
    /\ \E r \in Requests : add_url(r.url, r.depth)
    /\ UNCHANGED avars

NextUrl == next_url /\ UNCHANGED avars

\* no agent has been constructed
NoAgent ==
    /\ pc = "absent"
    /\ stop = ""
    /\ report = "none"
    /\ max_iterations = 0
    /\ max_time_seconds = 0
    /\ start_time = 0
    /\ current_iteration = 0
    /\ current_target = None
    /\ iteration_discoveries = EmptyMap
    /\ investigated_urls = {}
    /\ discoveries = <<>>
    /\ unique_discovery_contents = {}
    /\ entity_aliases = {}
    /\ accessed = <<>>
    /\ llm_calls = <<>>
    /\ saved_state = 0
    /\ research_strategy = None

QInit ==
    /\ pending = <<>>
    /\ visited = EmptyMap
    /\ domains_last_visit = EmptyMap
    /\ state_file = NoFile
    /\ now = Epoch
    /\ op = [name |-> "init", url |-> None, depth |-> 0]
    /\ ret = RetNone
    /\ NoAgent

QNext == AddUrl \/ NextUrl \/ Tick

QueueSpec == QInit /\ [][QNext]_vars

----------------------------------------------------------------------------
(***************************************************************************)
(* URLQueue.save_state and URLQueue.load_state.  The state file holds text *)
(* json.load can parse, written by json.dump, or text it cannot: the file  *)
(* is opened with mode 'w', which empties it, before json.dump writes.     *)
(***************************************************************************)

\* a file emptied by open(..., 'w') and holding what json.dump wrote before
\* it raised, if anything
PartialFile == [kind |-> "partial"]

\* json.dump of a dict of dicts: an object, its members (name, value) in the
\* order of the dict
JsonObject(seq) ==
    [i \in 1..Len(seq) |->
        <<seq[i].key, [url |-> seq[i].url, depth |-> seq[i].depth, added |-> seq[i].added]>>]

\* json.load of such an object: a dict in the order of the members
DictOfJson(members) ==
    [i \in 1..Len(members) |->
        [key |-> members[i][1], url |-> members[i][2].url, depth |-> members[i][2].depth,
         added |-> members[i][2].added]]

\* a number where a dict is expected, as json.load gives it for "pending": 5;
\* len() and `in` raise on it
NotADict == <<[number |-> 5]>>

\* a file of valid JSON that is no object: []
ArrayFile == [kind |-> "array"]

\* a file of valid JSON, an object whose "pending" is a number
MisshapedFile(v, d) == [kind |-> "misshaped", visited |-> v, domains_last_visit |-> d]

\* json.dump(state, f) with state as save_state builds it
JsonDump(p, v, d) ==
    IF p = NotADict
    THEN MisshapedFile(v, d)
    ELSE [kind |-> "json", pending |-> JsonObject(p), visited |-> v, domains_last_visit |-> d]

\* the three assignments of load_state from json.load(f), an object
JsonLoad(file) ==
    [pending |-> IF file.kind = "misshaped" THEN NotADict ELSE DictOfJson(file.pending),
     visited |-> file.visited,
     domains_last_visit |-> file.domains_last_visit]

\* how a save may end: written; open() raised (the file is as it was); the
\* file was opened and json.dump or the close raised
SaveOutcomes == {"written", "open_failed", "write_failed"}

\* URLQueue.save_state
save_state(outcome) ==
    /\ op' = [name |-> "save_state", url |-> None, depth |-> 0]
    /\ state_file' = CASE outcome = "written"      -> JsonDump(pending, visited, domains_last_visit)
                        [] outcome = "open_failed"  -> state_file
                        [] outcome = "write_failed" -> PartialFile
    /\ ret' = RetBool(outcome = "written")
    /\ UNCHANGED <<pending, visited, domains_last_visit, now>>

\* how reading the file may end: read, or open() raised
LoadOutcomes == {"read", "open_failed"}

\* URLQueue.load_state: no file, False; open() or json.load raises, or
\* state.get raises on what is no object, False with nothing assigned; else
\* the three assignments, and then the log line with len(self.pending) and
\* len(self.visited), which raises on what has no length: False again
load_state(outcome) ==
    /\ op' = [name |-> "load_state", url |-> None, depth |-> 0]
    /\ IF state_file.kind \in {"json", "misshaped"} /\ outcome = "read"
       THEN /\ pending' = JsonLoad(state_file).pending
            /\ visited' = JsonLoad(state_file).visited
            /\ domains_last_visit' = JsonLoad(state_file).domains_last_visit
            /\ ret' = RetBool(JsonLoad(state_file).pending # NotADict)
       ELSE /\ ret' = RetBool(FALSE)
            /\ UNCHANGED <<pending, visited, domains_last_visit>>
    /\ UNCHANGED <<now, state_file>>

\* the calls add_url of a run that is saved and resumed
StoreRequests ==
    { r \in Requests : r.url.scheme = "https" /\ r.url.path = "/a" /\ r.url.query = ""
                          /\ r.depth = 5 }

\* add_url and next_url raise on a queue whose pending is no dict: the calls
\* of a run end there
StoreAddUrl ==
    /\ pending # NotADict
    /\ \E r \in StoreRequests : add_url(r.url, r.depth)
    /\ UNCHANGED avars

StoreNextUrl ==
    /\ pending # NotADict
    /\ next_url
    /\ UNCHANGED avars

SaveState ==
    /\ \E outcome \in SaveOutcomes : save_state(outcome)
    /\ UNCHANGED avars

LoadState ==
    /\ \E outcome \in LoadOutcomes : load_state(outcome)
    /\ UNCHANGED avars

\* the process starts again: URLQueue.__init__ on the same state file
NewQueue ==
    /\ pending' = <<>>
    /\ visited' = EmptyMap
    /\ domains_last_visit' = EmptyMap
    /\ op' = [name |-> "init", url |-> None, depth |-> 0]
    /\ ret' = RetNone
    /\ UNCHANGED <<now, state_file>>
    /\ UNCHANGED avars

StoreNext == StoreAddUrl \/ StoreNextUrl \/ SaveState \/ LoadState \/ NewQueue \/ Tick

\* the files a run may find at its state_file path: none, or one it did not
\* write
InitialFiles == {NoFile, ArrayFile, MisshapedFile(EmptyMap, EmptyMap)}

\* URLQueue.__init__, whatever is at the path
StoreInit ==
    /\ pending = <<>>
    /\ visited = EmptyMap
    /\ domains_last_visit = EmptyMap
    /\ state_file \in InitialFiles
    /\ now = Epoch
    /\ op = [name |-> "init", url |-> None, depth |-> 0]
    /\ ret = RetNone
    /\ NoAgent

StoreSpec == StoreInit /\ [][StoreNext]_vars

----------------------------------------------------------------------------
(***************************************************************************)
(* Text.  A Python str is a TLA+ string; a character is a string of length *)
(* one.  The character classes are those of the ASCII range.               *)
(***************************************************************************)
UpperAlpha == "ABCDEFGHIJKLMNOPQRSTUVWXYZ"
LowerAlpha == "abcdefghijklmnopqrstuvwxyz"
DigitChars == "0123456789"

CharAt(s, i) == SubSeq(s, i, i)
CharsOf(s) == { CharAt(s, i) : i \in 1..Len(s) }

\* the characters of \s and of \w
SpaceChars == {" ", "\t", "\n", "\r"}
WordChars == CharsOf(UpperAlpha) \cup CharsOf(LowerAlpha) \cup CharsOf(DigitChars) \cup {"_"}

IsSpace(c) == c \in SpaceChars

LowerChar(c) ==
    IF c \in CharsOf(UpperAlpha)
    THEN CharAt(LowerAlpha, CHOOSE i \in 1..Len(UpperAlpha) : CharAt(UpperAlpha, i) = c)
    ELSE c

RECURSIVE LowerStr(_)
\* str.lower()
LowerStr(s) == IF s = "" THEN "" ELSE LowerChar(Head(s)) \o LowerStr(Tail(s))

RECURSIVE LStrip(_)
LStrip(s) == IF s # "" /\ IsSpace(Head(s)) THEN LStrip(Tail(s)) ELSE s

RECURSIVE RStrip(_)
RStrip(s) ==
    IF s # "" /\ IsSpace(CharAt(s, Len(s))) THEN RStrip(SubSeq(s, 1, Len(s) - 1)) ELSE s

\* str.strip()
Strip(s) == RStrip(LStrip(s))

RECURSIVE SplitFrom(_, _, _)
\* the words of s after `cur`, the word being read, and `acc`, the words read
SplitFrom(s, cur, acc) ==
    IF s = ""
    THEN IF cur = "" THEN acc ELSE Append(acc, cur)
    ELSE IF IsSpace(Head(s))
    THEN SplitFrom(Tail(s), "", IF cur = "" THEN acc ELSE Append(acc, cur))
    ELSE SplitFrom(Tail(s), cur \o Head(s), acc)

\* str.split()
Split(s) == SplitFrom(s, "", <<>>)

RECURSIVE Join(_)
\* " ".join(words)
Join(words) ==
    IF words = <<>> THEN ""
    ELSE IF Len(words) = 1 THEN words[1]
    ELSE words[1] \o " " \o Join(Tail(words))

RECURSIVE KeepChars(_, _)
\* re.sub(r'[^...]', '', s): s without the characters outside `keep`
KeepChars(s, keep) ==
    IF s = "" THEN ""
    ELSE (IF Head(s) \in keep THEN Head(s) ELSE "") \o KeepChars(Tail(s), keep)

\* needle in hay
Contains(hay, needle) ==
    \E i \in 0..(Len(hay) - Len(needle)) : SubSeq(hay, i + 1, i + Len(needle)) = needle

\* re.sub(r'^' + title + r'\s+', '', s)
StripTitle(s, title) ==
    IF /\ Len(s) > Len(title)
       /\ SubSeq(s, 1, Len(title)) = title
       /\ IsSpace(CharAt(s, Len(title) + 1))
    THEN LStrip(SubSeq(s, Len(title) + 1, Len(s)))
    ELSE s

\* re.sub(r'\s+' + suffix + r'$', '', s)
StripSuffix(s, suffix) ==
    IF /\ Len(s) > Len(suffix)
       /\ SubSeq(s, Len(s) - Len(suffix) + 1, Len(s)) = suffix
       /\ IsSpace(CharAt(s, Len(s) - Len(suffix)))
    THEN RStrip(SubSeq(s, 1, Len(s) - Len(suffix)))
    ELSE s

Titles == <<"mr", "mrs", "ms", "miss", "dr", "prof", "sir", "lord", "lady">>
Suffixes == <<"jr", "sr", "ii", "iii", "iv", "v">>

RECURSIVE StripTitles(_, _)
\* for title in titles: normalized = re.sub(...)
StripTitles(s, titles) ==
    IF titles = <<>> THEN s ELSE StripTitles(StripTitle(s, Head(titles)), Tail(titles))

RECURSIVE StripSuffixes(_, _)
\* for suffix in suffixes: normalized = re.sub(...)
StripSuffixes(s, suffixes) ==
    IF suffixes = <<>> THEN s
    ELSE StripSuffixes(StripSuffix(s, Head(suffixes)), Tail(suffixes))

\* [\w\s] and [\w\s\-\._@]
NameChars == WordChars \cup SpaceChars
PlainChars == WordChars \cup SpaceChars \cup {"-", ".", "_", "@"}

\* DetectiveAgent._normalize_content
NormalizeContent(content, content_type) ==
    IF content = "" THEN ""
    ELSE LET collapsed == Join(Split(LowerStr(content))) IN
         IF content_type = "name"
         THEN Strip(StripSuffixes(StripTitles(KeepChars(collapsed, NameChars), Titles),
                                  Suffixes))
         ELSE Strip(KeepChars(collapsed, PlainChars))

\* re.sub(r'[^\w]', '', content.lower())
CoreName(content) == KeepChars(LowerStr(content), WordChars)

----------------------------------------------------------------------------
(***************************************************************************)
(* DetectiveAgent: admission of artifacts (_process_artifacts,             *)
(* _is_duplicate_discovery).  A ledger state is the record                 *)
(*   [discoveries, unique, aliases]                                        *)
(* of self.discoveries, self.unique_discovery_contents and                 *)
(* self.entity_aliases.  Scores are exact fractions: an artifact's score   *)
(* comes in hundredths, an adjusted score is num / den.                    *)
(***************************************************************************)

\* self.entity
Entity == "Vi Bu"

RECURSIVE SeqToSet(_)
SeqToSet(q) == IF q = <<>> THEN {} ELSE {Head(q)} \cup SeqToSet(Tail(q))

\* DetectiveAgent.__init__: the entity, its parts longer than 2, "last, first"
InitialAliases ==
    LET parts == Split(Entity) IN
    {Entity}
    \cup (IF Entity # "" THEN { w \in SeqToSet(parts) : Len(w) > 2 } ELSE {})
    \cup (IF Entity # "" /\ Len(parts) > 1
          THEN { parts[Len(parts)] \o ", " \o Join(SubSeq(parts, 1, Len(parts) - 1)) }
          ELSE {})

\* self.excluded_names = self.entity_aliases.copy(), never written again
excluded_names == InitialAliases

Artifact(t, st, c, n, sc) == [type |-> t, subtype |-> st, content |-> c, name |-> n, score |-> sc]

FragmentWords == {"the", "a", "an", "of", "to", "from", "by", "with", "for", "in", "on", "at"}

StopWords ==
    {"the", "a", "an", "is", "are", "was", "were", "be", "been", "being",
     "have", "has", "had", "do", "does", "did", "will", "would", "shall",
     "should", "can", "could", "may", "might", "must", "of", "to", "from",
     "by", "with", "for", "in", "on", "at", "as", "this", "that", "these",
     "those", "their", "his", "her", "its", "our", "your", "my", "mine"}

IdentityTypes == {"username", "alias", "wallet_address", "name"}
BoostedTypes == {"username", "alias", "wallet_address", "private_key"}

\* words[:1] + words[-1:]
FirstAndLast(words) == IF words = <<>> THEN {} ELSE {words[1], words[Len(words)]}

\* "the name is part of the entity or in entity aliases"
EntityRelated(content, aliases) ==
    /\ Entity # ""
    /\ \/ Contains(LowerStr(content), LowerStr(Entity))
       \/ \E alias \in aliases : Contains(LowerStr(content), LowerStr(alias))

\* re.match(r'^[a-zA-Z0-9_-]+$', content)
LooksLikeHandle(content) ==
    /\ content # ""
    /\ \A i \in 1..Len(content) : CharAt(content, i) \in WordChars \cup {"-"}

\* re.match(r'^[a-zA-Z][a-zA-Z0-9_-]{2,}$', content)
LooksLikeGithubHandle(content) ==
    /\ Len(content) >= 3
    /\ Head(content) \in CharsOf(UpperAlpha) \cup CharsOf(LowerAlpha)
    /\ \A i \in 2..Len(content) : CharAt(content, i) \in WordChars \cup {"-"}

CountSpaces(content) == Cardinality({ i \in 1..Len(content) : CharAt(content, i) = " " })

\* the denominator of an adjusted score, in hundredths of the content length
ScoreDen(a) == 100 * (IF Len(a.content) > 0 THEN Len(a.content) ELSE 1)

\* the score after the type-specific adjustments, over ScoreDen(a)
AdjustedScore(a) ==
    LET L == IF Len(a.content) > 0 THEN Len(a.content) ELSE 1
        words == Split(a.content)
        stopword_count == Cardinality({ i \in 1..Len(words) : LowerStr(words[i]) \in StopWords })
    IN  IF a.type = "name"
        THEN a.score * L
             + (CASE a.subtype = "username"     -> 20 * L
                  [] a.subtype = "pseudonym"    -> 30 * L
                  [] a.subtype = "project_name" -> 20 * L
                  [] OTHER                      -> 10 * L)
             + (IF LooksLikeHandle(a.content) THEN 20 * L ELSE 0)
             + (IF LooksLikeGithubHandle(a.content) THEN 10 * L ELSE 0)
             - 40 * CountSpaces(a.content)
             - (IF Len(words) > 1 /\ 10 * stopword_count > 3 * Len(words) THEN 30 * L ELSE 0)
        ELSE a.score * L + (IF a.type \in BoostedTypes THEN 20 * L ELSE 0)

\* the minimum score of a discovery, in hundredths
MinScore == 30

BelowThreshold_Never(a) == FALSE

\* "if score < 0.3", on the adjusted score
BelowThreshold(a) == AdjustedScore(a) * 100 < MinScore * ScoreDen(a)

NameFiltered_Always(a, aliases) == TRUE

\* the filters applied to name artifacts before scoring
NameFiltered(a, aliases) ==
    \/ \E w \in FirstAndLast(Split(a.content)) : LowerStr(w) \in FragmentWords
    \/ EntityRelated(a.content, aliases)
    \/ \E i \in 1..Len(a.content) : CharAt(a.content, i) \in {"\n", "\r", "\t"}
    \/ Len(a.content) < 2
    \/ Len(a.content) > 30

\* the core of a name, its title removed when it starts with one
CoreWithoutTitle(content) ==
    LET low == LowerStr(content)
        hits == { i \in 1..Len(Titles) :
                    /\ StripTitle(low, Titles[i]) # low
                    /\ CoreName(StripTitle(low, Titles[i])) # "" }
    IN  IF hits = {} THEN CoreName(content)
        ELSE CoreName(StripTitle(low, Titles[CHOOSE i \in hits : \A j \in hits : j <= i]))

MatchesExcluded_ContainedOnly(content) ==
    \E excluded \in excluded_names :
        Len(excluded) >= 3 /\ Contains(LowerStr(content), LowerStr(excluded))

\* the check of a name against self.excluded_names: an excluded name of 3
\* characters or more is in the content, or the content is in it
MatchesExcluded(content) ==
    \E excluded \in excluded_names :
        /\ Len(excluded) >= 3
        /\ \/ Contains(LowerStr(content), LowerStr(excluded))
           \/ Contains(LowerStr(excluded), LowerStr(content))

InUnique_Never(x, unique) == FALSE

\* "normalized_content and normalized_content in self.unique_discovery_contents"
InUnique(x, unique) == x # "" /\ x \in unique

\* DetectiveAgent._is_duplicate_discovery, its verdict
IsDuplicate(d, led) ==
    \/ d.id # "" /\ \E i \in 1..Len(led.discoveries) : led.discoveries[i].id = d.id
    \/ d.content # "" /\ InUnique(NormalizeContent(d.content, d.type), led.unique)
    \/ /\ d.type = "name"
       /\ \/ /\ d.name # "" /\ d.name # d.content
             /\ InUnique(NormalizeContent(d.name, "name"), led.unique)
          \/ /\ d.content # ""
             /\ \E i \in 1..Len(led.discoveries) :
                   /\ led.discoveries[i].type = "name"
                   /\ led.discoveries[i].content # ""
                   /\ CoreWithoutTitle(d.content) # ""
                   /\ CoreWithoutTitle(d.content) = CoreWithoutTitle(led.discoveries[i].content)
          \/ d.content # "" /\ MatchesExcluded(d.content)

Remember_OnlyLatest(d, unique) ==
    IF d.content # "" /\ NormalizeContent(d.content, d.type) # ""
    THEN {NormalizeContent(d.content, d.type)} ELSE {}

\* DetectiveAgent._is_duplicate_discovery, what it records when it answers False
Remember(d, unique) ==
    unique
    \cup (IF d.content # "" /\ NormalizeContent(d.content, d.type) # ""
          THEN {NormalizeContent(d.content, d.type)} ELSE {})
    \cup (IF d.type = "name" /\ d.name # "" /\ d.name # d.content
             /\ NormalizeContent(d.name, "name") # ""
          THEN {NormalizeContent(d.name, "name")} ELSE {})

Admit_InFront(seq, d) == <<d>> \o seq

\* self.discoveries.append(discovery), new_discoveries.append(discovery)
Admit(seq, d) == Append(seq, d)

\* the discovery built from an artifact that passed the score threshold
MakeDiscovery(a, source_url, iteration, led, new) ==
    [id |-> ToString(Len(led.discoveries) + Len(new) + 1),
     type |-> a.type,
     content |-> a.content,
     name |-> a.name,
     score_num |-> IF AdjustedScore(a) > ScoreDen(a) THEN ScoreDen(a) ELSE AdjustedScore(a),
     score_den |-> ScoreDen(a),
     source_url |-> source_url,
     iteration |-> iteration]

AddAlias_Never(a, aliases) == aliases

\* "Update entity aliases if this is a name-related discovery"
AddAlias(a, aliases) ==
    IF a.type \in IdentityTypes THEN aliases \cup {a.content} ELSE aliases

RECURSIVE ProcessFrom(_, _, _, _, _, _)
\* the loop of _process_artifacts over the artifacts left, with batch_artifacts
\* and new_discoveries as they stand
ProcessFrom(artifacts, source_url, iteration, led, batch, new) ==
    IF artifacts = <<>>
    THEN [discoveries |-> led.discoveries, unique |-> led.unique, aliases |-> led.aliases,
          new |-> new]
    ELSE
    LET a == Head(artifacts)
        rest == Tail(artifacts)
        nc == NormalizeContent(a.content, a.type)
        nn == IF a.type = "name" /\ a.name # "" THEN NormalizeContent(a.name, "name") ELSE ""
        batch1 == batch \cup (IF nc # "" THEN {nc} ELSE {}) \cup (IF nn # "" THEN {nn} ELSE {})
        core == CoreName(a.content)
        isName == a.type = "name" /\ a.content # ""
        batch2 == IF isName /\ core # "" THEN batch1 \cup {core} ELSE batch1
        d == MakeDiscovery(a, source_url, iteration, led, new)
    IN  IF a.content = "" /\ a.name = ""
        THEN ProcessFrom(rest, source_url, iteration, led, batch, new)
        ELSE IF (nc # "" /\ nc \in batch) \/ (nn # "" /\ nn \in batch)
        THEN ProcessFrom(rest, source_url, iteration, led, batch, new)
        ELSE IF isName /\ core \in batch1
        THEN ProcessFrom(rest, source_url, iteration, led, batch1, new)
        ELSE IF a.type = "name" /\ NameFiltered(a, led.aliases)
        THEN ProcessFrom(rest, source_url, iteration, led, batch2, new)
        ELSE IF BelowThreshold(a)
        THEN ProcessFrom(rest, source_url, iteration, led, batch2, new)
        ELSE IF IsDuplicate(d, led)
        THEN ProcessFrom(rest, source_url, iteration, led, batch2, new)
        ELSE ProcessFrom(rest, source_url, iteration,
                         [discoveries |-> Admit(led.discoveries, d),
                          unique |-> Remember(d, led.unique),
                          aliases |-> AddAlias(a, led.aliases)],
                         batch2, Admit(new, d))

\* DetectiveAgent._process_artifacts
ProcessArtifacts(artifacts, source_url, iteration, led) ==
    ProcessFrom(artifacts, source_url, iteration, led, {}, <<>>)

----------------------------------------------------------------------------
(***************************************************************************)
(* Targets and the research strategy.  ResearchStrategy is the agent's     *)
(* scheduler: pending targets in insertion order, the identities seen, the *)
(* target selected, the completed history, the leads waiting, the time of  *)
(* the last strategy update and the last access of each domain.            *)
(***************************************************************************)

\* a target: 'type', its identity ('url', or 'query' for a search), 'priority'
\* and the 'use_wayback' flag (False when the key is absent)
Target(t, id, p, w) == [type |-> t, id |-> id, priority |-> p, use_wayback |-> w]

\* s.startswith(prefix)
StartsWith(s, prefix) == Len(s) >= Len(prefix) /\ SubSeq(s, 1, Len(prefix)) = prefix

RECURSIVE TakeUntil(_, _)
\* the longest prefix of s without a character of `stops`
TakeUntil(s, stops) ==
    IF s = "" \/ Head(s) \in stops THEN "" ELSE Head(s) \o TakeUntil(Tail(s), stops)

\* urlparse(url).netloc
HostOf(url) ==
    IF StartsWith(url, "https://") THEN TakeUntil(SubSeq(url, 9, Len(url)), {"/", "?", "#"})
    ELSE IF StartsWith(url, "http://") THEN TakeUntil(SubSeq(url, 8, Len(url)), {"/", "?", "#"})
    ELSE ""

NewStrategy(t) ==
    [todo |-> <<>>, seen |-> {}, selected |-> None, completed_targets |-> <<>>,
     discovered_leads |-> <<>>, last_update_time |-> t, last_access |-> EmptyMap]

RECURSIVE add_targets(_, _)
\* ResearchStrategy.add_targets: a target whose identity is empty or was seen
\* is skipped, any other is marked seen and appended to the pending targets
add_targets(st, targets) ==
    IF targets = <<>> THEN st
    ELSE LET t == Head(targets) IN
         IF t.id = "" \/ t.id \in st.seen
         THEN add_targets(st, Tail(targets))
         ELSE add_targets([st EXCEPT !.seen = @ \cup {t.id}, !.todo = Append(@, t)],
                          Tail(targets))

\* ResearchStrategy.get_status()['todo_count']
todo_count(st) == Len(st.todo)

\* the rate gate admits the domain of a pending target
Admits(st, t, time) ==
    \/ t.type = "search"
    \/ HostOf(t.id) \notin DOMAIN st.last_access
    \/ time - st.last_access[HostOf(t.id)] >= MinDelayTicks

\* the index of the target get_next_target takes, 0 if none is pending: the
\* highest priority among the admitted, the earliest inserted among equals,
\* and the oldest pending target when none is admitted
NextIndex(st, time) ==
    LET admitted == { i \in 1..Len(st.todo) : Admits(st, st.todo[i], time) } IN
    IF st.todo = <<>> THEN 0
    ELSE IF admitted = {} THEN 1
    ELSE CHOOSE i \in admitted :
            \A j \in admitted :
                \/ st.todo[j].priority < st.todo[i].priority
                \/ st.todo[j].priority = st.todo[i].priority /\ i <= j

\* ResearchStrategy.get_next_target: the strategy after the call
get_next_target(st, time) ==
    LET i == NextIndex(st, time) IN
    IF i = 0 THEN st
    ELSE [st EXCEPT !.todo = SubSeq(@, 1, i - 1) \o SubSeq(@, i + 1, Len(@)),
                    !.selected = Some(st.todo[i]),
                    !.last_access = IF st.todo[i].type = "search" THEN @
                                    ELSE MapSet(@, HostOf(st.todo[i].id), time)]

\* ResearchStrategy.mark_target_complete
mark_target_complete(st, target, new_discoveries) ==
    [st EXCEPT !.selected = None,
               !.completed_targets =
                   Append(@, [target |-> target, discoveries |-> Len(new_discoveries)])]

\* ResearchStrategy.add_discovered_lead
add_discovered_lead(st, lead) == [st EXCEPT !.discovered_leads = Append(@, lead)]

\* ResearchStrategy.process_discovered_leads
process_discovered_leads(st) ==
    [add_targets(st, st.discovered_leads) EXCEPT !.discovered_leads = <<>>]

\* ResearchStrategy.merge_strategy_updates
merge_strategy_updates(st, updates, time) ==
    [add_targets(st, updates) EXCEPT !.last_update_time = time]

----------------------------------------------------------------------------
(***************************************************************************)
(* DetectiveAgent: executing one target.  The outside world (fetch_page,   *)
(* the artifact detector, the Wayback client, the search engine) answers   *)
(* with an outcome                                                         *)
(*   [fetch, batch, snapshots, results]:                                   *)
(* fetch is "error" (a call raised), "empty" (no content) or "content";    *)
(* batch the artifacts extracted from the page; snapshots the artifacts of *)
(* each Wayback snapshot; results the URLs a search returned.  A run of an *)
(* investigation method yields the record [investigated, led, strategy,    *)
(* new]: self.investigated_urls, the ledger, self.research_strategy and    *)
(* the list of discoveries it returns.  Wayback calendar URLs (with a '*') *)
(* are not among the targets modelled.                                     *)
(***************************************************************************)

Outcome(f, b, sn, rs) == [fetch |-> f, batch |-> b, snapshots |-> sn, results |-> rs]

Ran(inv, led, st, new) == [investigated |-> inv, led |-> led, strategy |-> st, new |-> new]

\* the ledger inside the record _process_artifacts yields
LedgerOf(r) == [discoveries |-> r.discoveries, unique |-> r.unique, aliases |-> r.aliases]

\* _update_research_queue: the filter on targets already investigated
AlreadyInvestigated(t, inv) ==
    \/ t.type = "website" /\ t.id \in inv
    \/ t.type = "wayback" /\ ("wayback:" \o t.id) \in inv
    \/ t.type = "search" /\ ("search:" \o t.id) \in inv
    \/ t.type = "github" /\ t.id \in inv

update_research_queue_Unchecked(st, inv, new_targets) ==
    [st EXCEPT !.todo = @ \o SelectSeq(new_targets, LAMBDA t : ~AlreadyInvestigated(t, inv))]

\* DetectiveAgent._update_research_queue
update_research_queue(st, inv, new_targets) ==
    add_targets(st, SelectSeq(new_targets, LAMBDA t : ~AlreadyInvestigated(t, inv)))

\* self.priority_domains
priority_domains ==
    {"vitalik.ca", "bitcointalk.org", "github.com", "ethereum.org", "blog.ethereum.org",
     "ethereum.foundation"}

\* DetectiveAgent._should_check_wayback, for URLs outside github.com, medium.com,
\* twitter.com and reddit.com
ShouldCheckWayback(url) ==
    /\ ~Contains(url, "web.archive.org")
    /\ \/ HostOf(url) \in priority_domains
       \/ \E d \in {"vitalik.ca", "bitcointalk.org", "blog.ethereum.org", "ethereum.foundation"} :
             Contains(HostOf(url), d)
       \/ /\ Contains(LowerStr(url), "vitalik") \/ Contains(LowerStr(url), "buterin")
          /\ Contains(LowerStr(url), "ethereum")

\* the URL of the i-th snapshot of url
SnapshotUrl(url, i) == "https://web.archive.org/web/" \o ToString(i) \o "/" \o url

\* a snapshot without 'wayback_url', or whose fetch or extraction failed
FailedSnapshot == <<>>

RECURSIVE ProcessSnapshots(_, _, _, _, _, _)
\* _investigate_wayback: the loop over the selected snapshots
ProcessSnapshots(snapshots, i, url, iteration, led, all_discoveries) ==
    IF i > Len(snapshots)
    THEN [led |-> led, new |-> all_discoveries]
    ELSE IF snapshots[i] = FailedSnapshot
    THEN ProcessSnapshots(snapshots, i + 1, url, iteration, led, all_discoveries)
    ELSE LET r == ProcessArtifacts(snapshots[i], SnapshotUrl(url, i), iteration, led) IN
         ProcessSnapshots(snapshots, i + 1, url, iteration, LedgerOf(r),
                          all_discoveries \o r.new)

\* DetectiveAgent._investigate_wayback
investigate_wayback(url, out, iteration, inv, led, st) ==
    IF url = "" \/ ("wayback:" \o url) \in inv
    THEN Ran(inv, led, st, <<>>)
    ELSE IF out.fetch = "error"
    THEN Ran(inv \cup {"wayback:" \o url}, led, st, <<>>)
    ELSE LET r == ProcessSnapshots(out.snapshots, 1, url, iteration, led, <<>>) IN
         Ran(inv \cup {"wayback:" \o url}, r.led, st, r.new)

investigate_website_AlwaysWayback(t, out, iteration, inv, led, st) ==
    IF t.id = "" \/ t.id \in inv
    THEN Ran(inv, led, st, <<>>)
    ELSE IF out.fetch = "error"
    THEN Ran(inv \cup {t.id}, led, st, <<>>)
    ELSE IF out.fetch = "empty"
    THEN investigate_wayback(t.id, Outcome("content", <<>>, out.snapshots, <<>>),
                             iteration, inv \cup {t.id}, led, st)
    ELSE Ran(inv \cup {t.id}, LedgerOf(ProcessArtifacts(out.batch, t.id, iteration, led)), st,
             ProcessArtifacts(out.batch, t.id, iteration, led).new)

investigate_website_NoneReturned(t, out, iteration, inv, led, st) ==
    IF t.id = "" \/ t.id \in inv \/ out.fetch # "content"
    THEN Ran(inv, led, st, <<>>)
    ELSE Ran(inv \cup {t.id},
             LedgerOf(ProcessArtifacts(out.batch, t.id, iteration, led)), st, <<>>)

\* DetectiveAgent._investigate_website
investigate_website(t, out, iteration, inv, led, st) ==
    IF t.id = "" \/ t.id \in inv
    THEN Ran(inv, led, st, <<>>)
    ELSE IF out.fetch = "error"
    THEN Ran(inv \cup {t.id}, led, st, <<>>)
    ELSE IF out.fetch = "empty"
    THEN IF t.use_wayback
         THEN investigate_wayback(t.id, Outcome("content", <<>>, out.snapshots, <<>>),
                                  iteration, inv \cup {t.id}, led, st)
         ELSE Ran(inv \cup {t.id}, led, st, <<>>)
    ELSE LET r == ProcessArtifacts(out.batch, t.id, iteration, led) IN
         Ran(inv \cup {t.id}, LedgerOf(r),
             IF t.use_wayback /\ ~StartsWith(t.id, "https://web.archive.org/")
             THEN update_research_queue(st, inv \cup {t.id},
                                        <<Target("wayback", t.id, t.priority - 2, FALSE)>>)
             ELSE st,
             r.new)

RECURSIVE SearchTargets_SamePriority(_, _, _)
SearchTargets_SamePriority(results, inv, priority) ==
    IF results = <<>> THEN <<>>
    ELSE IF Head(results) = "" \/ Head(results) \in inv
    THEN SearchTargets_SamePriority(Tail(results), inv, priority)
    ELSE <<Target("website", Head(results), priority, ShouldCheckWayback(Head(results)))>>
         \o SearchTargets_SamePriority(Tail(results), inv, priority)

RECURSIVE SearchTargets(_, _, _)
\* _execute_search: the website targets made of the search results
SearchTargets(results, inv, priority) ==
    IF results = <<>> THEN <<>>
    ELSE IF Head(results) = "" \/ Head(results) \in inv
    THEN SearchTargets(Tail(results), inv, priority)
    ELSE <<Target("website", Head(results), priority - 1, ShouldCheckWayback(Head(results)))>>
         \o SearchTargets(Tail(results), inv, priority)

\* DetectiveAgent._execute_search
execute_search(t, out, inv, led, st) ==
    IF t.id = "" \/ ("search:" \o t.id) \in inv
    THEN Ran(inv, led, st, <<>>)
    ELSE IF out.fetch = "error" \/ out.results = <<>>
    THEN Ran(inv \cup {"search:" \o t.id}, led, st, <<>>)
    ELSE Ran(inv \cup {"search:" \o t.id}, led,
             update_research_queue(st, inv \cup {"search:" \o t.id},
                 SearchTargets(SubSeq(out.results, 1,
                                      IF Len(out.results) < 10 THEN Len(out.results) ELSE 10),
                               inv \cup {"search:" \o t.id}, t.priority)),
             <<>>)

\* DetectiveAgent._investigate_github
investigate_github(t, out, iteration, inv, led, st) ==
    IF t.id = "" \/ t.id \in inv
    THEN Ran(inv, led, st, <<>>)
    ELSE investigate_website(Target("website", t.id, 5, FALSE), out, iteration,
                             inv \cup {t.id}, led, st)

\* DetectiveAgent._execute_investigation
execute_investigation(t, out, iteration, inv, led, st) ==
    CASE t.type = "website" -> investigate_website(t, out, iteration, inv, led, st)
      [] t.type = "search"  -> execute_search(t, out, inv, led, st)
      [] t.type = "wayback" -> investigate_wayback(t.id, out, iteration, inv, led, st)
      [] t.type = "github"  -> investigate_github(t, out, iteration, inv, led, st)
      [] OTHER              -> Ran(inv, led, st, <<>>)

\* a call to the outside world and how it ended: "error" (it raised), "empty"
\* (it returned nothing) or "content"
Call(key, result) == [key |-> key, result |-> result]

\* how a Wayback lookup with outcome out ends
LookupResult(out) ==
    IF out.fetch = "error" THEN "error"
    ELSE IF out.snapshots = <<>> THEN "empty" ELSE "content"

\* the calls _execute_investigation makes to the outside world for target t:
\* fetch_page(url), self.wayback.get_snapshots(url), self.crawler.search(keywords).
\* A github target reaches _investigate_website with its URL already in
\* self.investigated_urls, and nothing is fetched for it.
Accesses(t, out, inv) ==
    CASE t.type = "website" ->
            IF t.id = "" \/ t.id \in inv THEN <<>>
            ELSE <<Call("fetch:" \o t.id, out.fetch)>>
                 \o (IF out.fetch = "empty" /\ t.use_wayback
                        /\ ("wayback:" \o t.id) \notin inv \cup {t.id}
                     THEN <<Call("wayback:" \o t.id,
                                 IF out.snapshots = <<>> THEN "empty" ELSE "content")>>
                     ELSE <<>>)
      [] t.type = "wayback" ->
            IF t.id = "" \/ ("wayback:" \o t.id) \in inv THEN <<>>
            ELSE <<Call("wayback:" \o t.id, LookupResult(out))>>
      [] t.type = "search" ->
            IF t.id = "" \/ ("search:" \o t.id) \in inv THEN <<>>
            ELSE <<Call("search:" \o t.id,
                        IF out.fetch = "error" THEN "error"
                        ELSE IF out.results = <<>> THEN "empty" ELSE "content")>>
      [] OTHER -> <<>>

UrlStops == SpaceChars \cup {")", "\"", "'"}

\* the length of the scheme "http://" or "https://" s starts with, or 0
SchemeLen(s) ==
    IF StartsWith(s, "https://") THEN 8 ELSE IF StartsWith(s, "http://") THEN 7 ELSE 0

RECURSIVE ExtractUrls(_)
\* DetectiveAgent._extract_urls_from_text, the matches of https?://[^\s)"']+
\* in the order of the text (the contents modelled hold one URL at most)
ExtractUrls(text) ==
    IF text = "" THEN <<>>
    ELSE LET n == SchemeLen(text)
             body == TakeUntil(SubSeq(text, n + 1, Len(text)), UrlStops)
         IN  IF n > 0 /\ body # ""
             THEN <<SubSeq(text, 1, n) \o body>>
                  \o ExtractUrls(SubSeq(text, n + Len(body) + 1, Len(text)))
             ELSE ExtractUrls(Tail(text))

\* a match of https?://(?:www\.)?github\.com/[^\s)"']+
IsGithubUrl(url) ==
    LET rest == SubSeq(url, SchemeLen(url) + 1, Len(url))
        host == IF StartsWith(rest, "www.") THEN SubSeq(rest, 5, Len(rest)) ELSE rest
    IN  StartsWith(host, "github.com/") /\ Len(host) > Len("github.com/")

IrrelevantDomains ==
    {"google.com", "facebook.com", "twitter.com", "youtube.com", "instagram.com",
     "linkedin.com", "amazon.com", "apple.com", "microsoft.com"}

\* DetectiveAgent._is_url_relevant
IsUrlRelevant(url) ==
    /\ url # ""
    /\ \A d \in IrrelevantDomains : ~Contains(LowerStr(url), d)

\* DetectiveAgent._extract_leads_from_discovery: a discovery carries no 'title'
\* and no 'url', so its leads are the URLs of its content
ExtractLeads(d, inv) ==
    LET urls == ExtractUrls(d.content) IN
    [i \in 1..Len(SelectSeq(urls, LAMBDA u : u \notin inv /\ IsUrlRelevant(u))) |->
        Target("website", SelectSeq(urls, LAMBDA u : u \notin inv /\ IsUrlRelevant(u))[i], 6, FALSE)]
    \o
    [i \in 1..Len(SelectSeq(urls, LAMBDA u : IsGithubUrl(u) /\ u \notin inv)) |->
        Target("github", SelectSeq(urls, LAMBDA u : IsGithubUrl(u) /\ u \notin inv)[i], 8, FALSE)]

RECURSIVE AddEach(_, _)
\* self.research_strategy.add_discovered_lead(lead) for lead in potential_leads
AddEach(st, leads) ==
    IF leads = <<>> THEN st ELSE AddEach(add_discovered_lead(st, Head(leads)), Tail(leads))

RECURSIVE AddLeads(_, _, _)
\* start_investigation: every lead of every new discovery is kept for later
AddLeads(st, new_discoveries, inv) ==
    IF new_discoveries = <<>> THEN st
    ELSE AddLeads(AddEach(st, ExtractLeads(Head(new_discoveries), inv)),
                  Tail(new_discoveries), inv)

----------------------------------------------------------------------------
(***************************************************************************)
(* What the outside world may answer.                                      *)
(***************************************************************************)

MaxIterations == 2
MaxElapse == 2
MaxRuntimeSteps == 2
ReviewInterval == 600
LeadsEvery == 5
ReviewEvery == 10

\* the clock of the agent moves in steps of half a review interval
TimeStepTicks == (ReviewInterval \div 2) * TicksPerSecond
ReviewIntervalTicks == ReviewInterval * TicksPerSecond

W1 == Target("website", "https://a.org/", 10, TRUE)
W2 == Target("wayback", "https://b.org/", 7, FALSE)
W3 == Target("website", "https://b.org/x", 5, FALSE)
S1 == Target("search", "vi bu", 8, FALSE)
G1 == Target("github", "https://github.com/vibu", 9, FALSE)

\* the targets _initialize_research builds from the strategy the LLM returned
\* (none when the answer names none or cannot be parsed)
InitialTargetLists == { <<>>, <<W1>>, <<W3>>, <<S1, G1>>, <<W2, W1>> }

\* the answers of _get_strategy_recommendations: an empty dictionary (nothing
\* parsed), or the targets to merge
Updates(e, ts) == [empty |-> e, targets |-> ts]
ReviewUpdates == { Updates(TRUE, <<>>), Updates(FALSE, <<>>), Updates(FALSE, <<W3, W1>>) }

\* what llm._call_claude / llm._call_openai hands back: text from which
\* llm._extract_json and json.loads get a strategy ("parsed"), text they
\* raise on ("unparsable", whatever it holds), or the text of a call that
\* failed ("failed")
Answer(kind, payload) == [kind |-> kind, payload |-> payload]

\* a call that failed hands back text holding no strategy
FailedCall(nothing) == Answer("failed", nothing)

InitialAnswers ==
    { FailedCall(<<>>), Answer("unparsable", <<>>), Answer("unparsable", <<W1>>) }
    \cup { Answer("parsed", ts) : ts \in InitialTargetLists }

ReviewAnswers ==
    { FailedCall(Updates(TRUE, <<>>)), Answer("unparsable", Updates(TRUE, <<>>)),
      Answer("unparsable", Updates(FALSE, <<W3, W1>>)) }
    \cup { Answer("parsed", u) : u \in ReviewUpdates }

LlmCall(at, answer) == [at |-> at, kind |-> answer.kind]

\* what the artifact detector may extract
E1 == Artifact("email", "", "Bob@X.org", "", 50)
E2 == Artifact("email", "", "bob@x.org ", "", 50)
U0 == Artifact("username", "", "!!", "", 50)
N1 == Artifact("name", "", "Dr. Jane Roe", "", 50)
L1 == Artifact("url", "", "see https://c.org/p", "", 40)
X1 == Artifact("email", "", "z@y.io", "", 50)
X2 == Artifact("email", "", "q@y.io", "", 25)
Z9 == Artifact("name", "", "zz9 plural z alpha", "", 50)

\* the artifacts of one page
Batches == { <<>>, <<E1, E2, X2>>, <<E2, X1>>, <<U0, U0>>, <<N1, L1>>, <<Z9>> }

\* the artifacts of the snapshots of one URL, in the order they are fetched
SnapshotLists == { <<>>, << <<E2, X1>> >>, << <<U0>>, FailedSnapshot, <<N1, E1>> >> }

ResultLists == { <<>>, <<"https://a.org/", "https://d.org/">> }

\* the answers the outside world may give when target t is executed
Outcomes(t) ==
    CASE t.type = "website" ->
            { Outcome("error", <<>>, <<>>, <<>>) }
            \cup { Outcome("empty", <<>>, sn, <<>>) : sn \in SnapshotLists }
            \cup { Outcome("content", b, <<>>, <<>>) : b \in Batches }
      [] t.type = "wayback" -> { Outcome("content", <<>>, sn, <<>>) : sn \in SnapshotLists }
                               \cup { Outcome("error", <<>>, <<>>, <<>>) }
      [] t.type = "search"  -> { Outcome("content", <<>>, <<>>, rs) : rs \in ResultLists }
                               \cup { Outcome("error", <<>>, <<>>, <<>>) }
      [] OTHER              -> { Outcome("content", <<>>, <<>>, <<>>) }

----------------------------------------------------------------------------
(***************************************************************************)
(* DetectiveAgent.start_investigation, one action per phase.               *)
(*   pc = "start"   : constructed, start_investigation not yet called      *)
(*   pc = "loop"    : at the test of the while loop                        *)
(*   pc = "review"  : get_next_target returned nothing                     *)
(*   pc = "execute" : a target is selected                                 *)
(*   pc = "report"  : the loop is left                                     *)
(*   pc = "done"    : start_investigation has returned                     *)
(***************************************************************************)

Ledger == [discoveries |-> discoveries, unique |-> unique_discovery_contents,
           aliases |-> entity_aliases]

\* self.max_idle_iterations, as small as a budget of idle iterations can be
max_idle_iterations == 1

\* the iterations just passed, counted back from the current one, that
\* brought no new discovery
ConsecutiveIdle ==
    LET idle(i) == i \notin DOMAIN iteration_discoveries \/ iteration_discoveries[i] = <<>>
        busy == { i \in 1..current_iteration : ~idle(i) }
    IN  IF busy = {} THEN current_iteration
        ELSE current_iteration - (CHOOSE i \in busy : \A j \in busy : j <= i)

IterationsReached_Late == current_iteration > max_iterations

\* DetectiveAgent._should_continue_investigation
IterationsReached == current_iteration >= max_iterations
RuntimeReached == now - start_time >= max_time_seconds

ShouldContinue_IdleBudget ==
    ~IterationsReached /\ ~RuntimeReached
    /\ ConsecutiveIdle < max_idle_iterations

ShouldContinue == ~IterationsReached /\ ~RuntimeReached

\* DetectiveAgent._get_initial_research_strategy and the targets
\* _initialize_research builds from it: none when the answer cannot be parsed
get_initial_research_strategy(answer) ==
    IF answer.kind = "parsed" THEN answer.payload ELSE <<>>

get_strategy_recommendations_Unguarded(answer) == answer.payload

\* DetectiveAgent._get_strategy_recommendations: {} when the answer cannot be
\* parsed
get_strategy_recommendations(answer) ==
    IF answer.kind = "parsed" THEN answer.payload ELSE Updates(TRUE, <<>>)

ReviewDue_Always(st, force_update, time) == TRUE

\* whether _review_research_strategy goes on to ask the LLM: "if not
\* force_update and time.time() - last_update_time < 600: return"
ReviewDue(st, force_update, time) ==
    force_update \/ time - st.last_update_time >= ReviewIntervalTicks

\* DetectiveAgent._review_research_strategy
review_research_strategy(st, force_update, updates, time) ==
    IF ~ReviewDue(st, force_update, time) THEN st
    ELSE IF updates.empty THEN st
    ELSE merge_strategy_updates(st, updates.targets, time)

AfterInitialize_Report(st) == IF todo_count(st) = 0 THEN "report" ELSE "loop"
AfterInitialize_Loop(st) == "loop"

\* where start_investigation goes after _initialize_research: it returns []
\* when the strategy has no target, and enters the loop otherwise
AfterInitialize(st) == IF todo_count(st) = 0 THEN "done" ELSE "loop"

\* _initialize_research, and the test of the todo count after it, for the
\* answers the LLM may give
InitializeFrom(answers) ==
    /\ pc = "start"
    /\ \E answer \in answers :
          \E targets \in { get_initial_research_strategy(answer) } :
          \E st \in { update_research_queue(add_targets(research_strategy, targets),
                                              investigated_urls, targets) } :
              /\ research_strategy' = st
              /\ llm_calls' = Append(llm_calls, LlmCall("initialize", answer))
              /\ pc' = AfterInitialize(st)
              /\ stop' = IF todo_count(st) = 0 THEN "no_targets" ELSE stop
    /\ UNCHANGED <<report, max_iterations, max_time_seconds, start_time, current_iteration,
                   current_target, iteration_discoveries, investigated_urls, discoveries,
                   unique_discovery_contents, entity_aliases, accessed, saved_state>>
    /\ UNCHANGED qvars

Initialize == InitializeFrom(InitialAnswers)

\* the while test fails
StopOnBudget ==
    /\ pc = "loop"
    /\ ~ShouldContinue
    /\ pc' = "report"
    /\ stop' = IF IterationsReached THEN "iterations" ELSE "runtime"
    /\ UNCHANGED <<report, max_iterations, max_time_seconds, start_time, current_iteration,
                   current_target, iteration_discoveries, investigated_urls, discoveries,
                   unique_discovery_contents, entity_aliases, accessed, llm_calls, saved_state, research_strategy>>
    /\ UNCHANGED qvars

\* the head of an iteration: the counter, the periodic steps, the selection
BeginIteration ==
    /\ pc = "loop"
    /\ ShouldContinue
    /\ current_iteration' = current_iteration + 1
    /\ \E answer \in ReviewAnswers :
          \E updates \in { get_strategy_recommendations(answer) } :
          \E st1 \in { IF current_iteration' % LeadsEvery = 0
                        THEN process_discovered_leads(research_strategy)
                        ELSE research_strategy } :
          \E st2 \in { IF current_iteration' % ReviewEvery = 0
                        THEN review_research_strategy(st1, FALSE, updates, now)
                        ELSE st1 } :
          \E st3 \in { get_next_target(st2, now) } :
              /\ research_strategy' = st3
              /\ llm_calls' = IF current_iteration' % ReviewEvery = 0
                                  /\ ReviewDue(st1, FALSE, now)
                               THEN Append(llm_calls, LlmCall("review", answer))
                               ELSE llm_calls
              /\ IF st3.selected = None
                 THEN pc' = "review" /\ current_target' = current_target
                 ELSE pc' = "execute" /\ current_target' = st3.selected
    /\ UNCHANGED <<stop, report, max_iterations, max_time_seconds, start_time,
                   iteration_discoveries, investigated_urls, discoveries,
                   unique_discovery_contents, entity_aliases, accessed, saved_state>>
    /\ UNCHANGED qvars

AfterForcedReview_Continue(st) == "loop"

\* where the loop goes after the forced review: it is left when the strategy
\* still has no target, and continues with the next iteration otherwise
AfterForcedReview(st) == IF todo_count(st) = 0 THEN "report" ELSE "loop"

\* no target: the forced review, then the test of the todo count
ForcedReview ==
    /\ pc = "review"
    /\ \E answer \in ReviewAnswers :
          \E updates \in { get_strategy_recommendations(answer) } :
          \E st \in { review_research_strategy(research_strategy, TRUE, updates, now) } :
          /\ research_strategy' = st
          /\ llm_calls' = Append(llm_calls, LlmCall("forced_review", answer))
          /\ pc' = AfterForcedReview(st)
          /\ stop' = IF todo_count(st) = 0 THEN "exhausted" ELSE stop
    /\ UNCHANGED <<report, max_iterations, max_time_seconds, start_time, current_iteration,
                   current_target, iteration_discoveries, investigated_urls, discoveries,
                   unique_discovery_contents, entity_aliases, accessed, saved_state>>
    /\ UNCHANGED qvars

AfterSave_AbortOnFailure(written) == IF written THEN "loop" ELSE "report"

\* _save_state: an exception of the write is logged inside, and the loop goes
\* on to its next test whether the state file was written or not
AfterSave(written) == "loop"

\* the rest of an iteration: execute, record, complete, keep the leads, save
Execute ==
    /\ pc = "execute"
    /\ \E out \in Outcomes(current_target[1]), written \in BOOLEAN :
          \E r \in { execute_investigation(current_target[1], out, current_iteration,
                                            investigated_urls, Ledger, research_strategy) } :
          \E st \in { mark_target_complete(r.strategy, current_target[1], r.new) } :
              /\ investigated_urls' = r.investigated
              /\ discoveries' = r.led.discoveries
              /\ unique_discovery_contents' = r.led.unique
              /\ entity_aliases' = r.led.aliases
              /\ accessed' = accessed \o Accesses(current_target[1], out, investigated_urls)
              /\ iteration_discoveries' = MapSet(iteration_discoveries, current_iteration, r.new)
              /\ research_strategy' = AddLeads(st, r.new, r.investigated)
              /\ saved_state' = IF written THEN current_iteration ELSE saved_state
              /\ pc' = AfterSave(written)
    /\ UNCHANGED <<stop, report, max_iterations, max_time_seconds, start_time,
                   current_iteration, current_target, llm_calls>>
    /\ UNCHANGED qvars

\* _generate_investigation_report: the report is built, and saved if the file
\* can be written
GenerateReport ==
    /\ pc = "report"
    /\ \E written \in BOOLEAN : report' = IF written THEN "saved" ELSE "unsaved"
    /\ pc' = "done"
    /\ UNCHANGED <<stop, max_iterations, max_time_seconds, start_time, current_iteration,
                   current_target, iteration_discoveries, investigated_urls, discoveries,
                   unique_discovery_contents, entity_aliases, accessed, llm_calls, saved_state, research_strategy>>
    /\ UNCHANGED qvars

\* time passes while the agent runs
Elapse ==
    /\ pc \in {"start", "loop", "review", "execute", "report"}
    /\ now < start_time + MaxElapse * TimeStepTicks
    /\ now' = now + TimeStepTicks
    /\ UNCHANGED <<pending, visited, domains_last_visit, op, ret, state_file>>
    /\ UNCHANGED avars

\* DetectiveAgent.__init__
AInit ==
    /\ pending = <<>>
    /\ visited = EmptyMap
    /\ domains_last_visit = EmptyMap
    /\ state_file = NoFile
    /\ now = Epoch
    /\ op = [name |-> "init", url |-> None, depth |-> 0]
    /\ ret = RetNone
    /\ pc = "start"
    /\ stop = ""
    /\ report = "none"
    /\ max_iterations \in 0..MaxIterations
    /\ max_time_seconds = MaxRuntimeSteps * TimeStepTicks
    /\ start_time = Epoch
    /\ current_iteration = 0
    /\ current_target = None
    /\ iteration_discoveries = EmptyMap
    /\ investigated_urls = {}
    /\ discoveries = <<>>
    /\ unique_discovery_contents = {}
    /\ entity_aliases = InitialAliases
    /\ accessed = <<>>
    /\ llm_calls = <<>>
    /\ saved_state = 0
    /\ research_strategy = NewStrategy(Epoch)

ANext ==
    \/ Initialize
    \/ StopOnBudget
    \/ BeginIteration
    \/ ForcedReview
    \/ Execute
    \/ GenerateReport
    \/ Elapse

AgentSpec == AInit /\ [][ANext]_vars

----------------------------------------------------------------------------
(***************************************************************************)
(* The loop over a long strategy: start_investigation with an iteration    *)
(* budget that reaches the periodic steps, on a strategy of GitHub targets *)
(* (nothing is fetched for them) behind one website.                       *)
(***************************************************************************)

ScheduleIterations == 10
ScheduleRuntimeSteps == 3

GithubTarget(k) == Target("github", "https://github.com/vibu/r" \o ToString(k), 9, FALSE)

\* a strategy long enough for the budget, and one of a single target
ScheduleAnswers ==
    { Answer("parsed", <<W1>> \o [k \in 1..ScheduleIterations |-> GithubTarget(k)]),
      Answer("parsed", <<GithubTarget(1)>>) }

InitializeSchedule == InitializeFrom(ScheduleAnswers)

\* DetectiveAgent.__init__ with max_iterations and max_time_hours given
SInit ==
    /\ pending = <<>>
    /\ visited = EmptyMap
    /\ domains_last_visit = EmptyMap
    /\ state_file = NoFile
    /\ now = Epoch
    /\ op = [name |-> "init", url |-> None, depth |-> 0]
    /\ ret = RetNone
    /\ pc = "start"
    /\ stop = ""
    /\ report = "none"
    /\ max_iterations = ScheduleIterations
    /\ max_time_seconds = ScheduleRuntimeSteps * TimeStepTicks
    /\ start_time = Epoch
    /\ current_iteration = 0
    /\ current_target = None
    /\ iteration_discoveries = EmptyMap
    /\ investigated_urls = {}
    /\ discoveries = <<>>
    /\ unique_discovery_contents = {}
    /\ entity_aliases = InitialAliases
    /\ accessed = <<>>
    /\ llm_calls = <<>>
    /\ saved_state = 0
    /\ research_strategy = NewStrategy(Epoch)

SNext ==
    \/ InitializeSchedule
    \/ StopOnBudget
    \/ BeginIteration
    \/ ForcedReview
    \/ Execute
    \/ GenerateReport
    \/ Elapse

ScheduleSpec == SInit /\ [][SNext]_vars

----------------------------------------------------------------------------
(***************************************************************************)
(* The ledger alone: _process_artifacts called on the artifacts of one     *)
(* page after another, one page in each iteration, as _investigate_website *)
(* calls it.  The scheduler and the outside world stand still.             *)
(***************************************************************************)

MaxPages == 4

PageUrl == "https://a.org/"

\* what the artifact detector may extract from a page
AJ   == Artifact("alias", "", "Jane Roe Doe", "", 50)
NJC  == Artifact("name", "", "Jane Roe Doe X", "", 50)
NJ   == Artifact("name", "", "Jane Roe", "", 50)
NV   == Artifact("name", "", "Vi B", "", 50)
UQ   == Artifact("username", "", "qz", "", 50)
NQ   == Artifact("name", "", "Liqzy Po", "", 50)
WA   == Artifact("wallet_address", "", "0xAB", "", 95)
ET   == Artifact("email", "", "t@y.io", "", 30)
NLow == Artifact("name", "", "Jo Do Re", "", 10)

PageBatches ==
    { <<AJ, NJC, NJ>>, <<NV, X1>>, <<UQ, NQ>>, <<NQ, NJC>>, <<WA, X2, ET>>, <<NLow, N1, E1>> }

\* self._process_artifacts(artifacts, url) in the next iteration
ProcessPage ==
    /\ pc = "page"
    /\ current_iteration < MaxPages
    /\ current_iteration' = current_iteration + 1
    /\ \E batch \in PageBatches :
          \E r \in { ProcessArtifacts(batch, PageUrl, current_iteration + 1, Ledger) } :
              /\ discoveries' = r.discoveries
              /\ unique_discovery_contents' = r.unique
              /\ entity_aliases' = r.aliases
              /\ iteration_discoveries' = MapSet(iteration_discoveries, current_iteration + 1, r.new)
    /\ UNCHANGED <<pc, stop, report, max_iterations, max_time_seconds, start_time,
                   current_target, investigated_urls, accessed, llm_calls, saved_state, research_strategy>>
    /\ UNCHANGED qvars

\* DetectiveAgent.__init__, with the loop left out
LInit ==
    /\ pending = <<>>
    /\ visited = EmptyMap
    /\ domains_last_visit = EmptyMap
    /\ state_file = NoFile
    /\ now = Epoch
    /\ op = [name |-> "init", url |-> None, depth |-> 0]
    /\ ret = RetNone
    /\ pc = "page"
    /\ stop = ""
    /\ report = "none"
    /\ max_iterations = MaxPages
    /\ max_time_seconds = MaxRuntimeSteps * TimeStepTicks
    /\ start_time = Epoch
    /\ current_iteration = 0
    /\ current_target = None
    /\ iteration_discoveries = EmptyMap
    /\ investigated_urls = {}
    /\ discoveries = <<>>
    /\ unique_discovery_contents = {}
    /\ entity_aliases = InitialAliases
    /\ accessed = <<>>
    /\ llm_calls = <<>>
    /\ saved_state = 0
    /\ research_strategy = NewStrategy(Epoch)

LNext == ProcessPage

LedgerSpec == LInit /\ [][LNext]_vars

----------------------------------------------------------------------------
(***************************************************************************)
(* Admission seen from the caller: _process_artifacts with the artifacts   *)
(* it was given and the list it returned on record.                        *)
(***************************************************************************)

\* what the artifact detector may extract from a page
SN   == Artifact("name", "", "Satoshi", "", 50)
UE   == Artifact("username", "", "", "satoshi_n", 50)
PLow == Artifact("name", "", "Ann Lee Poe", "", 10)
PHi  == Artifact("name", "", "ann lee poe", "", 50)
NT   == Artifact("name", "", "Jane\tRoe", "", 50)

AdmitBatches ==
    { <<SN>>, <<UE, NJ>>, <<NJ>>, <<PLow, PHi>>, <<PHi>>, <<NT, NJ>>, <<E1, X1>>, <<WA>>,
      <<PLow>> }

\* new = self._process_artifacts(artifacts, url) in the next iteration
ProcessArtifactsCall ==
    /\ pc = "page"
    /\ current_iteration < MaxPages
    /\ current_iteration' = current_iteration + 1
    /\ \E batch \in AdmitBatches :
          \E r \in { ProcessArtifacts(batch, PageUrl, current_iteration + 1, Ledger) } :
              /\ op' = [name |-> "_process_artifacts", artifacts |-> batch]
              /\ ret' = [kind |-> "list", value |-> r.new]
              /\ discoveries' = r.discoveries
              /\ unique_discovery_contents' = r.unique
              /\ entity_aliases' = r.aliases
              /\ iteration_discoveries' = MapSet(iteration_discoveries, current_iteration + 1, r.new)
    /\ UNCHANGED <<pc, stop, report, max_iterations, max_time_seconds, start_time,
                   current_target, investigated_urls, accessed, llm_calls, saved_state, research_strategy>>
    /\ UNCHANGED <<pending, visited, domains_last_visit, now, state_file>>

AdmitNext == ProcessArtifactsCall

AdmitSpec == LInit /\ [][AdmitNext]_vars

----------------------------------------------------------------------------
(***************************************************************************)
(* DetectiveAgent._normalize_content on its own: the texts it is given and *)
(* what it returns for each.                                               *)
(***************************************************************************)

\* the texts: a beginning, a middle and an end put together
TextHeads == {"", "Dr. ", "MR  ", "Prof.\t", "  Lady ", "Mr Dr ", "Dr Mr ", "Dr."}
TextCores == {"Jane Smith", "jane_smith", "J@ne \n Smith", "Jane - Smith", "V", ""}
TextTails == {"", " Jr.", " III", "  v ", ",jr", " Jr III"}
ContentTypes == {"name", "email"}

NormalizeCalls ==
    { [name |-> "_normalize_content", content |-> h \o c \o t, content_type |-> k] :
          h \in TextHeads, c \in TextCores, t \in TextTails, k \in ContentTypes }

\* self._normalize_content(content, content_type), called once
NormalizeCall ==
    /\ op.name = "init"
    /\ \E call \in NormalizeCalls :
          /\ op' = call
          /\ ret' = [kind |-> "str", value |-> NormalizeContent(call.content, call.content_type)]
    /\ UNCHANGED <<pending, visited, domains_last_visit, now, state_file>>
    /\ UNCHANGED avars

\* self._normalize_content(normalized, content_type): what the first call
\* returned is normalized again, as a stored normalized_content is when it is
\* compared later
NormalizeAgain ==
    /\ op.name = "_normalize_content"
    /\ "of" \notin DOMAIN op
    /\ op' = [name |-> "_normalize_content", content |-> ret.value,
              content_type |-> op.content_type, of |-> op.content]
    /\ ret' = [kind |-> "str", value |-> NormalizeContent(ret.value, op.content_type)]
    /\ UNCHANGED <<pending, visited, domains_last_visit, now, state_file>>
    /\ UNCHANGED avars

NInit == QInit

NNext == NormalizeCall \/ NormalizeAgain

NormalizeSpec == NInit /\ [][NNext]_vars

----------------------------------------------------------------------------
(* Properties of the URL queue *)

\* the domain of pending[i] was accessed less than min_delay ago
AccessedRecently(i) ==
    LET d == GetDomain(pending[i].url) IN
    /\ d \in DOMAIN domains_last_visit
    /\ now - domains_last_visit[d] < MinDelay * TicksPerSecond

KnownIdentity(raw) ==
    /\ NormalizeUrl(raw) # None
    /\ \/ \E i \in 1..Len(pending) : pending[i].url = NormalizeUrl(raw)[1]
       \/ \E k \in DOMAIN visited : visited[k].url = NormalizeUrl(raw)[1]

\* C1: no identity appears twice across pending and visited: the keys of
\* pending are pairwise distinct and disjoint from the keys of visited, and no
\* two entries hold the same normalized URL.
C1_UniqueIdentity ==
    /\ \A i, j \in 1..Len(pending) :
          i # j => pending[i].key # pending[j].key /\ pending[i].url # pending[j].url
    /\ PendingKeys \cap VisitedKeys = {}
    /\ \A i \in 1..Len(pending) : \A k \in VisitedKeys : visited[k].url # pending[i].url
    /\ \A k1, k2 \in VisitedKeys : k1 # k2 => visited[k1].url # visited[k2].url

\* an identity that was selected before is added again, with other work pending
C1_Witness ==
    /\ op.name = "add_url"
    /\ ret = RetBool(FALSE)
    /\ NormalizeUrl(op.url[1]) # None
    /\ \E k \in VisitedKeys : visited[k].url = NormalizeUrl(op.url[1])[1]
    /\ pending # <<>>

AdmittedNow == { i \in 1..Len(pending) : ~AccessedRecently(i) }

C5_AddKnownIsNoOp ==
    [][ \A r \in Requests :
          add_url(r.url, r.depth) =>
             /\ KnownIdentity(r.url) =>
                   /\ ret' = RetBool(FALSE)
                   /\ UNCHANGED <<pending, visited, domains_last_visit>>
             /\ \A i, j \in 1..Len(pending') :
                   pending'[i].url = pending'[j].url => i = j ]_qvars

\* the same identity, written differently, is added while it is still pending
C5_Witness ==
    /\ op.name = "add_url"
    /\ ret = RetBool(FALSE)
    /\ NormalizeUrl(op.url[1]) # None
    /\ \E i \in 1..Len(pending) :
          /\ pending[i].url = NormalizeUrl(op.url[1])[1]
          /\ pending[i].depth # op.depth

\* C26: next_url on an empty pending set returns (None, None) and leaves
\* pending, visited and the last visits of the domains as they are.
C26_EmptySelectionIsQuiet ==
    [][ (next_url /\ pending = <<>>) =>
          /\ ret' = RetNone
          /\ UNCHANGED <<pending, visited, domains_last_visit>> ]_qvars

\* next_url came back empty-handed from a queue that has released targets of
\* two domains before
C26_Witness ==
    /\ op.name = "next_url"
    /\ ret = RetNone
    /\ pending = <<>>
    /\ Cardinality(VisitedKeys) >= 2
    /\ Cardinality(DOMAIN domains_last_visit) >= 2

\* an identity that is empty, that urlparse cannot read, or whose scheme is
\* neither http nor https
InvalidIdentity(raw) ==
    \/ raw = EmptyUrl
    \/ UrlparseRaises(raw)
    \/ raw.scheme \notin {"", "http", "https"}

\* C27: adding an empty or invalid identity returns False and leaves pending,
\* visited and the last visits of the domains as they are.
C27_InvalidAddIsNoOp ==
    [][ \A r \in Requests :
          (add_url(r.url, r.depth) /\ InvalidIdentity(r.url)) =>
             /\ ret' = RetBool(FALSE)
             /\ UNCHANGED <<pending, visited, domains_last_visit>> ]_qvars

\* C28: a next_url that returns a target of domain d sets the last visit of d
\* to the time of the call and leaves the last visit of every other domain as
\* it is; exactly that target leaves pending, the others keep their order,
\* and it is the one entry visited gains; add_url never changes the last
\* visits.
C28_SelectionTouchesOneDomain ==
    [][ /\ (next_url /\ ret'.url # None) =>
              LET d == GetDomain(ret'.url[1]) IN
              /\ domains_last_visit' = MapSet(domains_last_visit, d, now)
              /\ \A e \in DOMAIN domains_last_visit :
                    e # d => domains_last_visit'[e] = domains_last_visit[e]
              /\ \E i \in 1..Len(pending) :
                    /\ pending[i].url = ret'.url[1]
                    /\ pending' = SubSeq(pending, 1, i - 1)
                                     \o SubSeq(pending, i + 1, Len(pending))
                    /\ DOMAIN visited' = DOMAIN visited \cup {pending[i].key}
              /\ \A k \in DOMAIN visited : visited'[k] = visited[k]
        /\ \A r \in Requests :
              add_url(r.url, r.depth) => domains_last_visit' = domains_last_visit ]_qvars

\* a target of one domain was released while the last visit of another
\* domain, recorded earlier, stayed as it was, and other work is pending
C28_Witness ==
    /\ op.name = "next_url"
    /\ ret.url # None
    /\ pending # <<>>
    /\ domains_last_visit[GetDomain(ret.url[1])] = now
    /\ \E e \in DOMAIN domains_last_visit :
          /\ e # GetDomain(ret.url[1])
          /\ domains_last_visit[e] < now

\* the URLs of the entries the queue knows, pending or visited
KnownUrls ==
    { pending[i].url : i \in 1..Len(pending) } \cup { visited[k].url : k \in DOMAIN visited }

\* two URLs as urlparse reads them, the same up to letter case of the host but
\* for the fragment, or but for the query string
DifferOnlyInFragmentOrQuery(a, b) ==
    /\ a.scheme = b.scheme
    /\ LowerNetloc(a.netloc) = LowerNetloc(b.netloc)
    /\ a.path = b.path
    /\ a.query = b.query \/ a.fragment = b.fragment

\* C31: add_url of a URL that differs from a URL the queue knows only in its
\* fragment or only in its query string inserts nothing and returns False:
\* the two normalize to one identity.
C31_FragmentAndQueryDropped ==
    [][ (/\ op'.name = "add_url"
         /\ <<op', ret', pending'>> # <<op, ret, pending>>
         /\ NormalizeUrl(op'.url[1]) # None
         /\ \E u \in KnownUrls : DifferOnlyInFragmentOrQuery(u, NormalizeUrl(op'.url[1])[1]))
           => /\ ~ret'.ok
              /\ pending' = pending ]_vars

\* the half of C31 about fragments: a URL that differs from a known URL only
\* in its fragment inserts nothing
FragmentDropped ==
    [][ (/\ op'.name = "add_url"
         /\ <<op', ret', pending'>> # <<op, ret, pending>>
         /\ NormalizeUrl(op'.url[1]) # None
         /\ \E u \in KnownUrls :
               /\ DifferOnlyInFragmentOrQuery(u, NormalizeUrl(op'.url[1])[1])
               /\ u.query = op'.url[1].query)
           => /\ ~ret'.ok
              /\ pending' = pending ]_vars

\* a URL with a fragment was refused after the same URL without it
FragmentRefused ==
    /\ op.name = "add_url"
    /\ op.url[1].fragment # ""
    /\ ~ret.ok
    /\ \E u \in KnownUrls : u.path = op.url[1].path /\ u.query = op.url[1].query

----------------------------------------------------------------------------
(* Properties of admission *)

\* the step at hand is a call of _process_artifacts
AdmissionStep == current_iteration' = current_iteration + 1

\* the call at hand appended a discovery made of the artifact
Admitted(a) ==
    \E i \in (Len(discoveries) + 1)..Len(discoveries') :
        discoveries'[i].type = a.type /\ discoveries'[i].content = a.content

\* the adjusted score of the artifact is 0.3 or more
AdequateScore(a) == AdjustedScore(a) * 100 >= MinScore * ScoreDen(a)

\* the first or the last word of the content is an article or a preposition
SentenceFragment(content) ==
    \E w \in FirstAndLast(Split(content)) : LowerStr(w) \in FragmentWords

\* what C32 asks of a name artifact
NameToAccept(a) ==
    /\ a.type = "name"
    /\ ~EntityRelated(a.content, entity_aliases)
    /\ ~SentenceFragment(a.content)
    /\ Len(a.content) >= 2
    /\ Len(a.content) <= 30
    /\ AdequateScore(a)
    /\ NormalizeContent(a.content, "name") \notin unique_discovery_contents

\* C32: a name artifact that is the first of its batch, is not related to the
\* entity or an alias, is no sentence fragment, has 2 to 30 characters, an
\* adjusted score of 0.3 or more and a normalized content not yet in the
\* ledger is accepted, one word or several.
C32_FirstNameAccepted ==
    [][ (AdmissionStep /\ NameToAccept(op'.artifacts[1])) => Admitted(op'.artifacts[1]) ]_vars

\* the id the next candidate gets is the id of no discovery
NextIdFree ==
    \A i \in 1..Len(discoveries) : discoveries[i].id # ToString(Len(discoveries) + 1)

\* the part of C32 that holds: such a name of several words, without tab or
\* line break and without a name field, is accepted when it is no part of an
\* excluded name, has the core of no name in the ledger and its id is free
SeveralWordsAccepted ==
    [][ (/\ AdmissionStep
         /\ NameToAccept(op'.artifacts[1])
         /\ CountSpaces(op'.artifacts[1].content) > 0
         /\ \A i \in 1..Len(op'.artifacts[1].content) :
               CharAt(op'.artifacts[1].content, i) \notin {"\n", "\r", "\t"}
         /\ op'.artifacts[1].name = ""
         /\ ~MatchesExcluded(op'.artifacts[1].content)
         /\ \A i \in 1..Len(discoveries) :
               discoveries[i].type = "name"
                  => CoreWithoutTitle(discoveries[i].content)
                        # CoreWithoutTitle(op'.artifacts[1].content)
         /\ NextIdFree)
           => Admitted(op'.artifacts[1]) ]_vars

\* a name of two words, first of its batch, was accepted
TwoWordNameAccepted ==
    /\ op.name = "_process_artifacts"
    /\ op.artifacts[1] = NJ
    /\ \E i \in 1..Len(ret.value) : ret.value[i].content = NJ.content

\* C33: the sequence number given to a candidate as its id is the id of no
\* discovery in the ledger, so the first artifact of a batch, of a type other
\* than name, with an adequate score and a normalized content the ledger
\* does not hold, is accepted, whatever batches came before.
C33_SequenceIdsNeverCollide ==
    [][ AdmissionStep
           => /\ NextIdFree
              /\ (/\ op'.artifacts[1].type # "name"
                  /\ NormalizeContent(op'.artifacts[1].content, op'.artifacts[1].type) # ""
                  /\ NormalizeContent(op'.artifacts[1].content, op'.artifacts[1].type)
                        \notin unique_discovery_contents
                  /\ AdequateScore(op'.artifacts[1]))
                 => Admitted(op'.artifacts[1]) ]_vars

\* C34: the alias set never holds the empty string.
C34_NoEmptyAlias == "" \notin entity_aliases

\* C35: an artifact rejected for its score or by a filter on names leaves no
\* trace: a batch that starts with such an artifact leaves the ledger, the
\* normalized contents and the aliases as the rest of the batch alone would.
C35_RejectedLeavesNoTrace ==
    [][ (/\ AdmissionStep
         /\ \/ ~AdequateScore(op'.artifacts[1])
            \/ /\ op'.artifacts[1].type = "name"
               /\ NameFiltered(op'.artifacts[1], entity_aliases))
           => /\ discoveries' = ProcessArtifacts(Tail(op'.artifacts), PageUrl,
                                                 current_iteration', Ledger).discoveries
              /\ unique_discovery_contents' = ProcessArtifacts(Tail(op'.artifacts), PageUrl,
                                                 current_iteration', Ledger).unique
              /\ entity_aliases' = ProcessArtifacts(Tail(op'.artifacts), PageUrl,
                                                 current_iteration', Ledger).aliases ]_vars

\* the part of C35 that holds: a batch of one rejected artifact changes
\* nothing, and its content is accepted from a later batch
RejectedAloneLeavesNoTrace ==
    [][ (/\ AdmissionStep
         /\ Len(op'.artifacts) = 1
         /\ \/ ~AdequateScore(op'.artifacts[1])
            \/ /\ op'.artifacts[1].type = "name"
               /\ NameFiltered(op'.artifacts[1], entity_aliases))
           => UNCHANGED <<discoveries, unique_discovery_contents, entity_aliases>> ]_vars

\* "ann lee poe" was accepted after the batch of the same name with a low score
AcceptedAfterRejection ==
    /\ op.name = "_process_artifacts"
    /\ op.artifacts = <<PHi>>
    /\ Len(ret.value) = 1
    /\ 1 \in DOMAIN iteration_discoveries
    /\ iteration_discoveries[1] = <<>>
    /\ current_iteration = 2

\* the normalized contents of the discoveries, those that are not empty
LedgerContents ==
    { NormalizeContent(discoveries[i].content, discoveries[i].type) : i \in 1..Len(discoveries) }
        \ {""}

\* C38: after every call of _process_artifacts the normalized content of
\* every discovery, when not empty, is in unique_discovery_contents, and no
\* step takes an element out of unique_discovery_contents.
C38_ContentsRecordedForGood ==
    [][ /\ unique_discovery_contents \subseteq unique_discovery_contents'
        /\ \A i \in 1..Len(discoveries') :
              \/ NormalizeContent(discoveries'[i].content, discoveries'[i].type) = ""
              \/ NormalizeContent(discoveries'[i].content, discoveries'[i].type)
                    \in unique_discovery_contents' ]_vars

\* four batches were processed and three normalized contents are on record
C38_Witness ==
    /\ current_iteration = MaxPages
    /\ Len(discoveries) >= 3
    /\ Cardinality(unique_discovery_contents) >= 3
    /\ LedgerContents \subseteq unique_discovery_contents

----------------------------------------------------------------------------
(* Properties of the state file *)

\* what load_state makes of a file: the state saved in it, or nothing
Recoverable(file) == IF file.kind = "json" THEN Some(JsonLoad(file)) ELSE None

\* C22: a save_state that fails leaves the recovery point where it was: what
\* load_state reads from the file after the failed save is what it read
\* before, the state of the last save that succeeded, and not an empty or a
\* partial file.
C22_FailedSaveKeepsSnapshot ==
    [][ (op'.name = "save_state" /\ ~ret'.ok)
           => Recoverable(state_file') = Recoverable(state_file) ]_vars

\* the state of the queue as load_state assigns it
QueueState(p, v, d) == [pending |-> p, visited |-> v, domains_last_visit |-> d]

\* C30: a save followed by a load reproduces pending, visited and
\* domains_last_visit: the file written holds the state saved and a load
\* assigns what the file holds; and a URL that next_url has just returned
\* when the state is saved, selected and not done with, is pending in the
\* state the load brings back.
C30_SaveLoadRoundTrip ==
    [][ /\ (op'.name = "save_state" /\ ret'.ok /\ pending # NotADict)
           => /\ Recoverable(state_file')
                    = Some(QueueState(pending', visited', domains_last_visit'))
              /\ (op.name = "next_url" /\ ret.ok)
                    => \E i \in 1..Len(JsonLoad(state_file').pending) :
                          JsonLoad(state_file').pending[i].url = ret.url[1]
        /\ (op'.name = "load_state" /\ ret'.ok)
           => Some(QueueState(pending', visited', domains_last_visit'))
                 = Recoverable(state_file) ]_vars

\* the first half of C30 alone
SaveLoadReproduces ==
    [][ /\ (op'.name = "save_state" /\ ret'.ok /\ pending # NotADict)
           => Recoverable(state_file')
                 = Some(QueueState(pending', visited', domains_last_visit'))
        /\ (op'.name = "load_state" /\ ret'.ok)
           => Some(QueueState(pending', visited', domains_last_visit'))
                 = Recoverable(state_file) ]_vars

\* a new queue has loaded a snapshot that holds a pending and a visited URL
StoreResumed ==
    /\ op.name = "load_state"
    /\ ret.ok
    /\ pending # <<>>
    /\ visited # EmptyMap

\* C39: a load_state on a state file that is missing, cannot be read or does
\* not hold JSON of the expected shape returns False, and a load_state that
\* returns False leaves pending, visited and domains_last_visit as they were.
C39_FailedLoadChangesNothing ==
    [][ (op'.name = "load_state" /\ <<op', ret'>> # <<op, ret>>)
           => /\ state_file.kind # "json" => ~ret'.ok
              /\ ~ret'.ok => UNCHANGED <<pending, visited, domains_last_visit>> ]_vars

\* the cases of C39 in which nothing is assigned: no file, a file that cannot
\* be opened, text that is no JSON, JSON that is no object
UnreadLoadChangesNothing ==
    [][ (op'.name = "load_state" /\ state_file.kind # "misshaped" /\ ~ret'.ok)
           => UNCHANGED <<pending, visited, domains_last_visit>> ]_vars

\* a queue that holds URLs has failed to load
FailedLoadOfUsedQueue ==
    /\ op.name = "load_state"
    /\ ~ret.ok
    /\ pending # <<>>
    /\ pending # NotADict
    /\ visited # EmptyMap

----------------------------------------------------------------------------
(* Properties of the normalization *)

\* the letters and digits
AlphanumericChars == CharsOf(UpperAlpha) \cup CharsOf(LowerAlpha) \cup CharsOf(DigitChars)

\* the normalization of a name as C29 words it: lowercased, whitespace runs
\* collapsed and trimmed, every character that is neither alphanumeric nor
\* whitespace stripped, a leading honorific and a trailing generational
\* suffix stripped
ClaimedName(content) ==
    IF content = "" THEN ""
    ELSE Strip(StripSuffixes(StripTitles(
             KeepChars(Join(Split(LowerStr(content))), AlphanumericChars \cup SpaceChars),
             Titles), Suffixes))

\* C29: _normalize_content(content, 'name') returns the name lowercased, its
\* whitespace runs collapsed and trimmed, stripped of every character that
\* is neither alphanumeric nor whitespace, of a leading honorific and of a
\* trailing generational suffix.
C29_NameNormalization ==
    (op.name = "_normalize_content" /\ op.content_type = "name")
        => ret.value = ClaimedName(op.content)

\* "Dr. Jane Smith Jr." as a name normalizes to "jane smith"
C29_Example ==
    (op.name = "_normalize_content" /\ op.content_type = "name"
       /\ op.content = "Dr. Jane Smith Jr.")
        => ret.value = "jane smith"

\* the call at hand normalizes what a first call returned
SecondCall == op.name = "_normalize_content" /\ "of" \in DOMAIN op

\* C37: _normalize_content returns its argument when the argument is itself
\* a value it returned for the same type, whatever the titles and suffixes
\* of the text the first call was given.
C37_NormalizeIdempotent ==
    SecondCall => ret.value = op.content

\* texts of one title at most, one suffix at most and no character removed
\* between two spaces are normalized once and for all
PlainTextsIdempotent ==
    (/\ SecondCall
     /\ op.of \in { h \o c \o t : h \in {"", "Dr. ", "MR  ", "  Lady "},
                                    c \in {"Jane Smith", "jane_smith", "V"},
                                    t \in {"", " Jr.", " III", "  v "} })
        => ret.value = op.content

\* "Dr. Jane Smith Jr." was normalized, and the result again
NormalizedTwice ==
    /\ SecondCall
    /\ op.of = "Dr. Jane Smith Jr."
    /\ op.content = "jane smith"

----------------------------------------------------------------------------
(* Properties of the detective agent *)

\* the normalized content of a discovery, by the normalization of its type
NormalizedOf(d) == NormalizeContent(d.content, d.type)

\* the iterations in which a target was executed
ExecutedIterations == DOMAIN iteration_discoveries
Executions == Cardinality(ExecutedIterations)

C7_IterationBudget ==
    /\ [](/\ Executions <= current_iteration
          /\ current_iteration <= max_iterations
          /\ stop = "iterations" =>
                /\ current_iteration = max_iterations
                /\ (ExecutedIterations = 1..current_iteration => Executions = max_iterations))
    /\ [][ /\ (stop' # stop /\ stop' \in {"iterations", "runtime"}) => pc = "loop"
           /\ (pc = "loop" /\ ~RuntimeReached /\ current_iteration < max_iterations)
              => current_iteration' \in {current_iteration, current_iteration + 1}
                 /\ pc' \in {"loop", "execute", "review"}
           /\ (BeginIteration /\ research_strategy.todo # <<>>) => pc' = "execute"
           /\ Execute => /\ Executions' = Executions + 1
                         /\ current_iteration' = current_iteration
                         /\ pc' = "loop"
           /\ current_iteration' # current_iteration
              => pc = "loop" /\ current_iteration' = current_iteration + 1 ]_vars

\* max_iterations targets were executed, one in each iteration, while the
\* runtime budget ran out during the last execution; the run then stopped on
\* the iteration budget
C7_Witness ==
    /\ pc = "done"
    /\ stop = "iterations"
    /\ max_iterations >= 2
    /\ Executions = max_iterations
    /\ now - start_time >= max_time_seconds

C9_NoTargetsNoIteration ==
    /\ [](stop = "no_targets" =>
            /\ pc = "done"
            /\ current_iteration = 0
            /\ current_target = None
            /\ research_strategy.selected = None
            /\ research_strategy.completed_targets = <<>>
            /\ Executions = 0
            /\ investigated_urls = {}
            /\ discoveries = <<>>)
    /\ [][ /\ (Initialize /\ research_strategy'.todo = <<>>)
              => pc' = "done" /\ stop' = "no_targets"
           /\ pc = "done" => UNCHANGED avars ]_vars

\* the strategy generator named no target
C9_Witness ==
    /\ pc = "done"
    /\ stop = "no_targets"
    /\ research_strategy.todo = <<>>
    /\ research_strategy.seen = {}

\* C10: an iteration whose selection comes back empty goes to the forced
\* review, which is made whatever the time of the last update; if no target
\* is pending after it the loop is left as exhausted, otherwise the loop goes
\* on to the next iteration; no target is executed in that iteration.
C10_EmptySelectionForcesReview ==
    /\ [](pc = "review" =>
            /\ research_strategy.todo = <<>>
            /\ research_strategy.selected = None
            /\ current_iteration \notin ExecutedIterations)
    /\ [][ /\ (BeginIteration /\ research_strategy'.selected = None) => pc' = "review"
           /\ (BeginIteration /\ research_strategy'.selected # None) => pc' = "execute"
           /\ pc = "review" =>
                 /\ \E updates \in ReviewUpdates :
                       research_strategy' =
                           IF updates.empty THEN research_strategy
                           ELSE merge_strategy_updates(research_strategy, updates.targets, now)
                 /\ IF research_strategy'.todo = <<>>
                    THEN pc' = "report" /\ stop' = "exhausted"
                    ELSE pc' = "loop" /\ stop' = stop
                 /\ ExecutedIterations' = ExecutedIterations
                 /\ current_iteration' = current_iteration
           /\ (pc = "loop" /\ current_iteration \notin ExecutedIterations)
              => current_iteration \notin ExecutedIterations' ]_avars

\* the second iteration found nothing pending; the forced review, made at the
\* very time of the initialization, brought targets, and the loop went on
\* without an execution in that iteration
C10_Witness ==
    /\ pc = "loop"
    /\ current_iteration = 2
    /\ ExecutedIterations = {1}
    /\ research_strategy.todo # <<>>
    /\ research_strategy.last_update_time = now
    /\ now = start_time

\* the identities pending, selected and completed in the research strategy
PendingIds == { research_strategy.todo[i].id : i \in 1..Len(research_strategy.todo) }
SelectedIds ==
    IF research_strategy.selected = None THEN {} ELSE { research_strategy.selected[1].id }
CompletedIds ==
    { research_strategy.completed_targets[i].target.id :
         i \in 1..Len(research_strategy.completed_targets) }

\* no element occurs twice in the sequence q
NoRepeat(q) == \A i, j \in 1..Len(q) : q[i] = q[j] => i = j

OneSeedSelected ==
    /\ pc = "execute"
    /\ current_iteration = 1
    /\ current_target[1].type = "website"
    /\ ~current_target[1].use_wayback
    /\ research_strategy.seen = { current_target[1].id }
    /\ discoveries = <<>>

\* the fetcher returns HTML and the extractor the one name artifact
Z9Page == Outcome("content", <<Z9>>, <<>>, <<>>)

C17_OneSelectedAtATime ==
    /\ [](/\ (research_strategy.selected # None) <=> (pc = "execute")
          /\ research_strategy.selected # None => current_target = research_strategy.selected
          /\ Len(research_strategy.completed_targets) = Executions)
    /\ [][ /\ research_strategy'.selected # research_strategy.selected
              => \/ /\ pc = "loop" /\ pc' = "execute"
                    /\ research_strategy.selected = None
                    /\ current_iteration' = current_iteration + 1
                 \/ /\ pc = "execute" /\ pc' = "loop"
                    /\ research_strategy'.selected = None
           /\ Execute =>
                 /\ research_strategy.selected # None
                 /\ research_strategy'.selected = None
                 /\ research_strategy'.completed_targets =
                       Append(research_strategy.completed_targets,
                              [target |-> research_strategy.selected[1],
                               discoveries |-> Len(discoveries') - Len(discoveries)])
           /\ research_strategy'.completed_targets # research_strategy.completed_targets
              => pc = "execute" /\ pc' = "loop" ]_vars

\* two targets were selected and completed in turn, the first with two
\* discoveries, and no target is selected
C17_Witness ==
    /\ pc = "loop"
    /\ Len(research_strategy.completed_targets) = 2
    /\ research_strategy.completed_targets[1].discoveries = 2
    /\ research_strategy.completed_targets[1].target # research_strategy.completed_targets[2].target
    /\ research_strategy.selected = None

\* sequence p is the beginning of sequence q
IsPrefix(p, q) == Len(p) <= Len(q) /\ SubSeq(q, 1, Len(p)) = p

RECURSIVE Flatten(_)
Flatten(qs) == IF qs = <<>> THEN <<>> ELSE Head(qs) \o Flatten(Tail(qs))

\* the artifacts the collaborators return for target t under outcome out, in
\* the order they are handed to _process_artifacts
Returned(t, out) ==
    CASE t.type = "website" /\ out.fetch = "content" -> out.batch
      [] t.type = "website" /\ out.fetch = "empty"   -> Flatten(out.snapshots)
      [] t.type = "wayback"                           -> Flatten(out.snapshots)
      [] OTHER                                        -> <<>>

RECURSIVE InOrderOf(_, _)
\* the discoveries ds were made of artifacts of as, taken in the order of as
InOrderOf(ds, as) ==
    IF ds = <<>> THEN TRUE
    ELSE IF as = <<>> THEN FALSE
    ELSE IF /\ Head(ds).type = Head(as).type
            /\ Head(ds).content = Head(as).content
            /\ Head(ds).name = Head(as).name
         THEN InOrderOf(Tail(ds), Tail(as))
         ELSE InOrderOf(ds, Tail(as))

\* C18: whatever the collaborators return for the selected target, its
\* execution leaves the ledger as it was and appends the discoveries it
\* accepts, in the order of the artifacts returned; every step of the run
\* keeps the entries of the ledger, unchanged and in place; and the ledger
\* changes only when an execution ends, by the discoveries of that iteration.
C18_AppendOnlyInOrder ==
    /\ [](pc = "execute" =>
            \A out \in Outcomes(current_target[1]) :
                LET r == execute_investigation(current_target[1], out, current_iteration,
                                               investigated_urls, Ledger, research_strategy)
                IN  /\ r.led.discoveries = discoveries \o r.new
                    /\ InOrderOf(r.new, Returned(current_target[1], out)))
    /\ [][ /\ IsPrefix(discoveries, discoveries')
           /\ discoveries' # discoveries
              => /\ pc = "execute" /\ pc' = "loop"
                 /\ discoveries' = discoveries \o iteration_discoveries'[current_iteration] ]_vars

\* the ledger held a discovery of the first iteration when the second added
\* "!!" of the first snapshot and "Dr. Jane Roe" of the second, in that order
C18_Witness ==
    /\ Len(discoveries) = 3
    /\ discoveries[1].iteration = 1
    /\ discoveries[2].iteration = 2
    /\ discoveries[2].content = U0.content
    /\ discoveries[3].iteration = 2
    /\ discoveries[3].content = N1.content

\* the calls made to the outside world by the step at hand
NewCalls == SubSeq(accessed', Len(accessed) + 1, Len(accessed'))

\* the step at hand ends the execution of the selected target: it is marked
\* complete with what the iteration found, and the loop goes on
CompletesAndGoesOn ==
    /\ pc' = "loop"
    /\ stop' = stop
    /\ current_iteration' = current_iteration
    /\ current_iteration \in DOMAIN iteration_discoveries'
    /\ research_strategy'.selected = None
    /\ research_strategy'.completed_targets =
          Append(research_strategy.completed_targets,
                 [target |-> current_target[1],
                  discoveries |-> Len(iteration_discoveries'[current_iteration])])

\* the step at hand leaves the ledger alone and returns no discovery
NothingFound ==
    /\ discoveries' = discoveries
    /\ iteration_discoveries'[current_iteration] = <<>>

NoStrategy == {"failed", "unparsable"}

\* the step at hand asked the LLM for a strategy at the given place and got none
GeneratorFailed(at) ==
    /\ Len(llm_calls') = Len(llm_calls) + 1
    /\ llm_calls'[Len(llm_calls')].at = at
    /\ llm_calls'[Len(llm_calls')].kind \in NoStrategy

C21_SaveIsFireAndForget ==
    [][ /\ (pc = "execute" /\ pc' # "execute")
           => /\ saved_state' \in {saved_state, current_iteration}
              /\ pc' = "loop"
              /\ stop' = stop
              /\ current_iteration' = current_iteration
              /\ \E out \in Outcomes(current_target[1]) :
                    LET r == execute_investigation(current_target[1], out, current_iteration,
                                                   investigated_urls, Ledger,
                                                   research_strategy)
                    IN  /\ discoveries' = r.led.discoveries
                        /\ unique_discovery_contents' = r.led.unique
                        /\ entity_aliases' = r.led.aliases
                        /\ investigated_urls' = r.investigated
                        /\ iteration_discoveries' =
                              MapSet(iteration_discoveries, current_iteration, r.new)
                        /\ research_strategy' =
                              AddLeads(mark_target_complete(r.strategy, current_target[1], r.new),
                                       r.new, r.investigated)
        /\ (pc # "execute" \/ pc' = "execute") => saved_state' = saved_state ]_vars

\* no write has succeeded, the first iteration found something, and the
\* second iteration has selected its target
C21_Witness ==
    /\ pc = "execute"
    /\ current_iteration = 2
    /\ saved_state = 0
    /\ discoveries # <<>>
    /\ Len(research_strategy.completed_targets) = 1

\* C23: the loop is left only when the iteration budget or the runtime
\* budget is reached, or when a forced review leaves no target pending; as
\* long as neither budget is reached the loop goes on to select a target or
\* to the forced review, however many iterations in a row found nothing.
C23_IdleBudgetDisabled ==
    [][ /\ (pc = "loop" /\ pc' = "report")
           => /\ IterationsReached \/ RuntimeReached
              /\ stop' = IF IterationsReached THEN "iterations" ELSE "runtime"
        /\ (pc = "review" /\ pc' = "report")
           => todo_count(research_strategy') = 0 /\ stop' = "exhausted"
        /\ (pc # "report" /\ pc' = "report") => pc \in {"loop", "review"}
        /\ (pc = "loop" /\ ~IterationsReached /\ ~RuntimeReached)
           => pc' \in {"loop", "execute", "review"}
        /\ (pc = "loop" /\ ~IterationsReached /\ ~RuntimeReached /\ pc' # "loop")
           => current_iteration' = current_iteration + 1 ]_vars

\* as many iterations in a row as the idle budget names have found nothing,
\* neither budget is reached, and the loop has selected its next target
C23_Witness ==
    /\ pc = "execute"
    /\ current_iteration >= 2
    /\ \A i \in 1..(current_iteration - 1) :
          i \in DOMAIN iteration_discoveries /\ iteration_discoveries[i] = <<>>
    /\ current_iteration - 1 >= max_idle_iterations
    /\ discoveries = <<>>

\* the targets the step at hand adds to the pending targets, and the leads it
\* keeps for later
AddedTargets ==
    { research_strategy'.todo[i] : i \in 1..Len(research_strategy'.todo) }
        \ { research_strategy.todo[i] : i \in 1..Len(research_strategy.todo) }
KeptLeads ==
    { research_strategy'.discovered_leads[i] :
          i \in (Len(research_strategy.discovered_leads) + 1)
                   ..Len(research_strategy'.discovered_leads) }

LeadIds(st) == { st.discovered_leads[i].id : i \in 1..Len(st.discovered_leads) }

\* the step at hand asks the LLM for a strategy, at the given place
AsksLlm(at) ==
    /\ Len(llm_calls') = Len(llm_calls) + 1
    /\ llm_calls'[Len(llm_calls')].at = at

C36_GithubFetchedLikeWebsite ==
    [][ (pc = "execute" /\ pc' # "execute")
        => /\ ( /\ current_target[1].type = "github"
                /\ current_target[1].id # ""
                /\ current_target[1].id \notin investigated_urls )
              => Cardinality({ i \in 1..Len(NewCalls) :
                                 NewCalls[i].key = "fetch:" \o current_target[1].id }) = 1
           /\ current_target[1].type \notin {"website", "search", "wayback", "github"}
              => NothingFound ]_vars

\* what the execution of a github target does: it records the URL as
\* investigated, calls no collaborator and finds nothing
GithubNeverFetched ==
    [][ (pc = "execute" /\ pc' # "execute" /\ current_target[1].type = "github")
        => /\ NewCalls = <<>>
           /\ NothingFound
           /\ current_target[1].id \in investigated_urls' ]_vars

\* the github target "https://github.com/vibu" was executed for the first
\* time: its URL is recorded as investigated and nothing was fetched for it
GithubExecuted ==
    /\ Len(research_strategy.completed_targets) >= 1
    /\ research_strategy.completed_targets[1].target = G1
    /\ research_strategy.completed_targets[1].discoveries = 0
    /\ G1.id \in investigated_urls
    /\ \A i \in 1..Len(accessed) : accessed[i].key # "fetch:" \o G1.id

----------------------------------------------------------------------------
(* Properties of the ledger *)

\* x and y, compared without case, one inside the other
Related(x, y) ==
    \/ Contains(LowerStr(x), LowerStr(y))
    \/ Contains(LowerStr(y), LowerStr(x))

\* self.entity_aliases when the k-th discovery of the ledger was evaluated:
\* the aliases of the constructor and the contents of the identity-typed
\* discoveries accepted before it
AliasesBefore(k) ==
    InitialAliases
    \cup { discoveries[j].content : j \in { i \in 1..(k - 1) : discoveries[i].type \in IdentityTypes } }

NameProbes ==
    { a \in UNION { SeqToSet(b) : b \in PageBatches } : a.type = "name" }

\* the ledger with the aliases shorter than 3 characters left out
WithoutShortAliases(led) == [led EXCEPT !.aliases = { x \in @ : Len(x) >= 3 }]

\* whether _process_artifacts accepts artifact a, submitted alone, on ledger led
AcceptsAlone(a, led) ==
    ProcessArtifacts(<<a>>, PageUrl, current_iteration + 1, led).new # <<>>

\* C13: an alias shorter than 3 characters never causes the rejection of a
\* name: a name artifact that is accepted when the aliases of 1 or 2
\* characters are left out of the alias set is accepted with them in it.
C13_ShortAliasNeverRejects ==
    \A a \in NameProbes :
        AcceptsAlone(a, WithoutShortAliases(Ledger)) => AcceptsAlone(a, Ledger)

C15_ScoreThresholdAndCap ==
    \A k \in 1..Len(discoveries) :
        /\ MinScore * discoveries[k].score_den <= 100 * discoveries[k].score_num
        /\ 0 <= discoveries[k].score_num
        /\ discoveries[k].score_num <= discoveries[k].score_den

\* one page gave a wallet address of score 0.95, an e-mail address of score
\* 0.25 and one of score 0.3: the first was stored with score 1 (1.15 capped),
\* the second was rejected, the third was stored with score 0.3
C15_Witness ==
    /\ Len(discoveries) = 2
    /\ discoveries[1].content = "0xAB"
    /\ discoveries[1].score_num = discoveries[1].score_den
    /\ AdjustedScore(WA) > ScoreDen(WA)
    /\ discoveries[2].content = "t@y.io"
    /\ 100 * discoveries[2].score_num = MinScore * discoveries[2].score_den
    /\ discoveries[2].iteration = discoveries[1].iteration

====
